---- MODULE Spec2Model ----
(***************************************************************************)
(* Social card service (ahoysoft/image_link_card).                         *)
(*                                                                         *)
(* The database tables (users, cards, api_keys), the object storage and    *)
(* the clock are the shared state.  Every HTTP request is handled by a     *)
(* worker (Procs) that runs the handler's code in steps: one step per      *)
(* database read or commit, because that is where requests of other        *)
(* workers can come in between.  A worker keeps what it has loaded in its  *)
(* own SQLAlchemy session (req[p]); attribute assignments change that copy *)
(* and db.session.commit() writes the changed columns back.                *)
(***************************************************************************)
EXTENDS Integers, Sequences, FiniteSets, TLC

\* ------------------------------------------------------------------ bounds
MaxNow == 1          \* the clock runs over 0..MaxNow
DaysPerMonth == 1    \* clock instants per calendar month (a scaled-down calendar)
MaxCards == 6        \* slugs Card.generate_slug can hand out
MaxKeys == 3         \* raw keys APIKey.generate_key can hand out
MaxViews == 3        \* non-bot visits that may be started
MaxServed == 2
MaxMails == 3       \* cards created where requests run one at a time

Procs == {"p1", "p2"}
UserIds == {"u1", "u2"}
NoUser == "anonymous"
NoTime == -1

VARIABLES now, users, cards, api_keys, storage, next_slug, next_key,
          pc, req, resp, created, redirected, outbox

vars == <<now, users, cards, api_keys, storage, next_slug, next_key,
          pc, req, resp, created, redirected, outbox>>

db == <<users, cards, api_keys, storage>>

\* ------------------------------------------------------------------ clock
\* datetime.year and datetime.month of an instant.
YearOf(t) == 2025 + (t \div (12 * DaysPerMonth))
MonthOf(t) == ((t \div DaysPerMonth) % 12) + 1

\* ------------------------------------------------------------------ text
\* A str is its identity s, the length n of its stripped content and the
\* whitespace around it; url says that wtforms' URL() accepts the str as it
\* is submitted.  None is a value of its own.
Text(s, lead, n, trail, url) ==
    [s |-> s, lead |-> lead, n |-> n, trail |-> trail, url |-> url]
EmptyText == Text("", 0, 0, 0, FALSE)
NoneText == Text("None", 0, 0, 0, FALSE)
TextLen(t) == t.lead + t.n + t.trail
\* str.strip()
strip(t) == IF t.n = 0 THEN EmptyText ELSE [t EXCEPT !.lead = 0, !.trail = 0]
\* Python truthiness of a str or None
Truthy(t) == t # NoneText /\ TextLen(t) > 0
\* x or None
OrNone(t) == IF Truthy(t) THEN t ELSE NoneText

\* ------------------------------------------------------------------ User
TIER_LIMITS == [free |-> 5, core |-> 50, premium |-> 500]

NewUser(verified, tier, admin, t) ==
    [email_verified |-> verified, tier |-> tier, is_admin |-> admin,
     monthly_card_count |-> 0, card_count_reset_at |-> t]

\* A token string: tok names what secrets.token_urlsafe(32) returned (0: no
\* such string) and prefix counts the "reset:" put in front of it.  None is
\* a value of its own.
Token(prefix, tok) == [prefix |-> prefix, tok |-> tok]
NoToken == Token(0, 0)
\* f"reset:{token}"
ResetOf(token) == [token EXCEPT !.prefix = @ + 1]

\* None as a password hash
NoHash == [none |-> TRUE]
\* The columns of a user that say who it is: the account.
Account(email, password_hash, token) ==
    [email |-> email, password_hash |-> password_hash,
     email_verification_token |-> token]

get_monthly_limit(u) ==
    IF u.tier \in DOMAIN TIER_LIMITS THEN TIER_LIMITS[u.tier] ELSE 5

NeedsReset(u, t) ==
    \/ u.card_count_reset_at = NoTime
    \/ YearOf(u.card_count_reset_at) # YearOf(t)
    \/ MonthOf(u.card_count_reset_at) # MonthOf(t)

\* User._maybe_reset_monthly_count: the user object afterwards.
maybe_reset_monthly_count(u, t) ==
    IF NeedsReset(u, t)
    THEN [u EXCEPT !.monthly_card_count = 0, !.card_count_reset_at = t]
    ELSE u

\* User.can_create_card: the answer; the object is reset as a side effect.
can_create_card(u, t) ==
    LET v == maybe_reset_monthly_count(u, t)
    IN v.monthly_card_count < get_monthly_limit(v)

\* User.increment_card_count: the user object afterwards.
increment_card_count(u, t) ==
    LET v == maybe_reset_monthly_count(u, t)
    IN [v EXCEPT !.monthly_card_count = @ + 1]

\* ------------------------------------------------------------------ APIKey
\* The n-th key secrets.token_urlsafe yields: its first 8 characters and the
\* rest.  Two keys may share their first 8 characters (the 1st and the 3rd do).
generate_key(n) ==
    [first8 |-> IF n % 2 = 1 THEN "sk_aaaaa" ELSE "sk_bbbbb", tail |-> n]
NoHeader == [first8 |-> "", tail |-> 0]
\* a header shorter than 8 characters, and a forged key with a known prefix
ShortHeader == [first8 |-> "sk_", tail |-> 0]
ForgedHeader == [first8 |-> "sk_aaaaa", tail |-> 99]

\* werkzeug's generate_password_hash / check_password_hash: one-way, and
\* only the hashed value checks against it.
generate_password_hash(raw) == [pbkdf2 |-> raw]
check_password_hash(h, raw) == h = generate_password_hash(raw)

\* APIKey.create: the record for raw key raw.
APIKeyCreate(user_id, name, raw) ==
    [user_id |-> user_id, name |-> name,
     key_hash |-> generate_password_hash(raw), key_prefix |-> raw.first8,
     last_used_at |-> NoTime, revoked_at |-> NoTime]
\* a verify_key that compares the stored prefix only
verify_prefix(k, raw) == k.key_prefix = raw.first8
verify_key(k, raw) == check_password_hash(k.key_hash, raw)
\* an is_active that does not look at revoked_at
is_active_always(k) == TRUE
is_active(k) == k.revoked_at = NoTime
\* APIKey.revoke
revoke(k, t) == [k EXCEPT !.revoked_at = t]

\* ------------------------------------------------------------------ requests
NoReq == [op |-> "none"]
NoResp == [status |-> 0]

\* The handler returns response r.
Finish(p, r) ==
    /\ pc' = [pc EXCEPT ![p] = "done"]
    /\ resp' = [resp EXCEPT ![p] = r]

\* The worker is free for the next request.
Return(p) ==
    /\ pc[p] = "done"
    /\ pc' = [pc EXCEPT ![p] = "idle"]
    /\ req' = [req EXCEPT ![p] = NoReq]
    /\ resp' = [resp EXCEPT ![p] = NoResp]
    /\ UNCHANGED <<now, db, next_slug, next_key, created, redirected, outbox>>

\* The clock moves on.
Tick ==
    /\ now < MaxNow
    /\ now' = now + 1
    /\ UNCHANGED <<db, next_slug, next_key, pc, req, resp, created, redirected, outbox>>

\* The columns of row that the session's object obj changed since it was
\* loaded are written; the others keep what the table holds now.
WriteChanged(row, loaded, obj) ==
    [f \in DOMAIN row |-> IF obj[f] # loaded[f] THEN obj[f] ELSE row[f]]

\* the key lookup without revoked_at=None
AnyWithPrefix(hdr) ==
    {k \in DOMAIN api_keys : api_keys[k].key_prefix = hdr.first8}

\* require_api_key: the decorator of every API handler.  A request with
\* X-API-Key hdr for the handler that starts at entry, with arguments args.
ActiveWithPrefix(hdr) ==
    {k \in DOMAIN api_keys :
        api_keys[k].key_prefix = hdr.first8 /\ api_keys[k].revoked_at = NoTime}

AuthFail(p, args, hdr, r) ==
    /\ Finish(p, r)
    /\ req' = [req EXCEPT ![p] = args @@ [hdr |-> hdr]]
    /\ UNCHANGED api_keys

require_api_key(p, hdr, entry, args) ==
    /\ pc[p] = "idle"
    /\ IF hdr = NoHeader
       THEN AuthFail(p, args, hdr, [status |-> 401, error |-> "Missing API key"])
       ELSE IF ActiveWithPrefix(hdr) = {}
       THEN AuthFail(p, args, hdr, [status |-> 401, error |-> "Invalid API key"])
       ELSE \E k \in ActiveWithPrefix(hdr) :    \* .first(), in no stated order
              IF ~verify_key(api_keys[k], hdr)
              THEN AuthFail(p, args, hdr,
                            [status |-> 401, error |-> "Invalid API key"])
              ELSE IF ~users[api_keys[k].user_id].email_verified
              THEN AuthFail(p, args, hdr,
                            [status |-> 403, error |-> "Email not verified"])
              ELSE /\ api_keys' = [api_keys EXCEPT ![k].last_used_at = now]
                   /\ pc' = [pc EXCEPT ![p] = entry]
                   /\ req' = [req EXCEPT ![p] = args @@
                                 [hdr |-> hdr, api_key |-> k,
                                  current_user |-> api_keys[k].user_id]]
                   /\ resp' = resp
    /\ UNCHANGED <<now, users, cards, storage, next_slug, next_key,
                   created, redirected, outbox>>

\* ------------------------------------------------------------------ images
ALLOWED_CONTENT_TYPES == {"image/jpeg", "image/png", "image/gif", "image/webp"}
MAX_SIZE == 5 * 1024 * 1024
DIMENSIONS == [summary |-> <<144, 144>>, summary_large_image |-> <<1200, 628>>]

\* An uploaded file: present says the request has an 'image' part, has_name
\* that its filename is not empty, ext is the filename's extension, openable
\* that PIL can decode the bytes.
Image(id, has_name, ext, content_type, size, openable) ==
    [present |-> TRUE, id |-> id, has_name |-> has_name, ext |-> ext,
     content_type |-> content_type, size |-> size, openable |-> openable]
NoImage ==
    [present |-> FALSE, id |-> "none", has_name |-> FALSE, ext |-> "",
     content_type |-> "", size |-> 0, openable |-> FALSE]

\* image_file.content_type or 'application/octet-stream'
ContentType(img) ==
    IF img.content_type = "" THEN "application/octet-stream" ELSE img.content_type

\* ImageProcessor.validate: "ok" or the ImageProcessingError raised.
validate(img, content_type) ==
    IF content_type \notin ALLOWED_CONTENT_TYPES THEN "Invalid file type"
    ELSE IF img.size > MAX_SIZE THEN "File too large"
    ELSE "ok"

\* ImageProcessor.process: "ok" or the ImageProcessingError raised.
process(img, card_type) ==
    IF card_type \notin DOMAIN DIMENSIONS THEN "Invalid card type"
    ELSE IF ~img.openable THEN "Failed to open image"
    ELSE "ok"

\* try: validate; process  except ImageProcessingError
ImageError(img, card_type) ==
    IF validate(img, ContentType(img)) # "ok" THEN validate(img, ContentType(img))
    ELSE process(img, card_type)

\* The bytes stored for a card: the upload itself and the PNG made of it.
OriginalData(img) == [of |-> img.id, format |-> ContentType(img), size |-> <<0, 0>>]
ProcessedData(img, card_type) ==
    [of |-> img.id, format |-> "image/png", size |-> DIMENSIONS[card_type]]

\* ------------------------------------------------------------------ storage
OriginalKey(user_id, slug) == [dir |-> "originals", user |-> user_id, slug |-> slug]
ProcessedKey(slug) == [dir |-> "processed", user |-> "", slug |-> slug]
\* storage.upload
upload(st, key, data) == (key :> data) @@ st
\* storage.delete
delete(st, key) == [k \in (DOMAIN st) \ {key} |-> st[k]]

\* ------------------------------------------------------------------ forms
CardTypes == {"summary", "summary_large_image"}
Absent == "absent"
Form(image, title, description, destination_url, card_type) ==
    [image |-> image, title |-> title, description |-> description,
     destination_url |-> destination_url, card_type |-> card_type]

\* request.form.get('card_type', CardType.SUMMARY_LARGE_IMAGE)
ApiCardType(f) == IF f.card_type = Absent THEN "summary_large_image" ELSE f.card_type

\* create_card's checks of the request: "ok" or the error of the 400 answer.
ApiCreateError(f) ==
    IF ~f.image.present THEN "Missing image"
    ELSE IF ~f.image.has_name THEN "Empty image"
    ELSE IF ~Truthy(strip(f.title)) THEN "Missing title"
    ELSE IF TextLen(strip(f.title)) > 200 THEN "Title too long"
    ELSE IF ~Truthy(strip(f.destination_url)) THEN "Missing destination_url"
    ELSE IF TextLen(strip(f.description)) > 500 THEN "Description too long"
    ELSE IF ApiCardType(f) \notin CardTypes THEN "Invalid card_type"
    ELSE "ok"

\* wtforms validators
DataRequired(t) == Truthy(t) /\ Truthy(strip(t))
URL(t) == t.url
FileAllowed(img) == img.ext \in {"jpg", "jpeg", "png", "gif", "webp"}

\* CardForm.validate
CardFormValid(f) ==
    /\ f.image.present /\ f.image.has_name         \* FileRequired
    /\ FileAllowed(f.image)
    /\ DataRequired(f.title) /\ TextLen(f.title) <= 200
    /\ (Truthy(strip(f.description)) => TextLen(f.description) <= 500)  \* Optional
    /\ DataRequired(f.destination_url) /\ URL(f.destination_url)
    /\ f.card_type \in CardTypes

\* CardEditForm.validate
CardEditFormValid(f) ==
    /\ DataRequired(f.title) /\ TextLen(f.title) <= 200
    /\ (Truthy(strip(f.description)) => TextLen(f.description) <= 500)
    /\ DataRequired(f.destination_url) /\ URL(f.destination_url)

\* ------------------------------------------------------------------ Card
Card(user_id, slug, title, description, destination_url, card_type) ==
    [user_id |-> user_id, slug |-> slug, title |-> title,
     description |-> description, destination_url |-> destination_url,
     card_type |-> card_type,
     image_original_key |-> OriginalKey(user_id, slug),
     image_processed_key |-> ProcessedKey(slug), view_count |-> 0]

\* The Card(...) each handler builds from its request.
ApiNewCard(user_id, slug, f) ==
    Card(user_id, slug, strip(f.title), OrNone(strip(f.description)),
         strip(f.destination_url), ApiCardType(f))
DashboardNewCard(user_id, slug, f) ==
    Card(user_id, slug, strip(f.title),
         IF Truthy(f.description) THEN strip(f.description) ELSE NoneText,
         strip(f.destination_url), f.card_type)

\* ------------------------------------------------------------------ bot detection
\* A User-Agent is the sequence of its characters.
UpperCase == <<"A", "B", "C", "D", "E", "F", "G", "H", "I", "J", "K", "L", "M", "N", "O", "P", "Q", "R", "S", "T", "U", "V", "W", "X", "Y", "Z">>
LowerCase == <<"a", "b", "c", "d", "e", "f", "g", "h", "i", "j", "k", "l", "m", "n", "o", "p", "q", "r", "s", "t", "u", "v", "w", "x", "y", "z">>
\* str.lower(), character by character
lower_char(c) ==
    IF \E i \in 1..Len(UpperCase) : UpperCase[i] = c
    THEN LowerCase[CHOOSE i \in 1..Len(UpperCase) : UpperCase[i] = c]
    ELSE c
lower(str) == [i \in 1..Len(str) |-> lower_char(str[i])]
\* sub in str
In(sub, str) ==
    \E i \in 0..(Len(str) - Len(sub)) : SubSeq(str, i + 1, i + Len(sub)) = sub

BOT_USER_AGENTS == {
    <<"t", "w", "i", "t", "t", "e", "r", "b", "o", "t">>,
    <<"f", "a", "c", "e", "b", "o", "o", "k", "e", "x", "t", "e", "r", "n", "a", "l", "h", "i", "t">>,
    <<"l", "i", "n", "k", "e", "d", "i", "n", "b", "o", "t">>,
    <<"s", "l", "a", "c", "k", "b", "o", "t">>,
    <<"t", "e", "l", "e", "g", "r", "a", "m", "b", "o", "t">>,
    <<"w", "h", "a", "t", "s", "a", "p", "p">>,
    <<"d", "i", "s", "c", "o", "r", "d", "b", "o", "t">>,
    <<"p", "i", "n", "t", "e", "r", "e", "s", "t">>,
    <<"t", "u", "m", "b", "l", "r">>,
    <<"r", "e", "d", "d", "i", "t", "b", "o", "t">>,
    <<"e", "m", "b", "e", "d", "l", "y">>,
    <<"q", "u", "o", "r", "a", " ", "l", "i", "n", "k", " ", "p", "r", "e", "v", "i", "e", "w">>,
    <<"o", "u", "t", "b", "r", "a", "i", "n">>,
    <<"r", "o", "g", "e", "r", "b", "o", "t">>,
    <<"s", "h", "o", "w", "y", "o", "u", "b", "o", "t">>,
    <<"s", "l", "u", "r", "p">>,
    <<"b", "a", "i", "d", "u", "s", "p", "i", "d", "e", "r">>,
    <<"b", "i", "n", "g", "b", "o", "t">>,
    <<"g", "o", "o", "g", "l", "e", "b", "o", "t">>,
    <<"a", "p", "p", "l", "e", "b", "o", "t">>,
    <<"y", "a", "n", "d", "e", "x", "b", "o", "t">>,
    <<"d", "u", "c", "k", "d", "u", "c", "k", "b", "o", "t">>}

\* is_bot without the lower()
is_bot_as_typed(user_agent) ==
    IF user_agent = <<>> THEN FALSE
    ELSE \E bot \in BOT_USER_AGENTS : In(bot, user_agent)

is_bot(user_agent) ==
    IF user_agent = <<>> THEN FALSE
    ELSE \E bot \in BOT_USER_AGENTS : In(bot, lower(user_agent))

\* ------------------------------------------------------------------ creating a card
MAX_CONTENT_LENGTH == MAX_SIZE

\* Workers that will still draw a slug.
Drawing == {q \in Procs : pc[q] = "create_card"}
SlugsLeft == next_slug + Cardinality(Drawing) <= MaxCards

\* What both handlers keep for the upload and the commit.
Prepared(r, via, who, f, loaded, card) ==
    [op |-> "create_card", via |-> via, current_user |-> who, form |-> f,
     loaded |-> loaded, user |-> maybe_reset_monthly_count(loaded, now),
     slug |-> next_slug, card |-> card] @@ r

\* POST /api/v1/cards, from the quota check to the slug (cards.py 72-149).
create_card(p) ==
    /\ pc[p] = "create_card"
    /\ LET r == req[p]
           f == r.form
           loaded == users[r.current_user]
           user == maybe_reset_monthly_count(loaded, now)
       IN  IF ~can_create_card(loaded, now)
           THEN /\ Finish(p, [status |-> 403, error |-> "Monthly limit reached",
                              current_count |-> user.monthly_card_count,
                              limit |-> get_monthly_limit(user)])
                /\ UNCHANGED <<req, next_slug>>
           ELSE IF f.image.size > MAX_CONTENT_LENGTH
           THEN /\ Finish(p, [status |-> 413, error |-> "Request Entity Too Large"])
                /\ UNCHANGED <<req, next_slug>>
           ELSE IF ApiCreateError(f) # "ok"
           THEN /\ Finish(p, [status |-> 400, error |-> ApiCreateError(f)])
                /\ UNCHANGED <<req, next_slug>>
           ELSE IF ImageError(f.image, ApiCardType(f)) # "ok"
           THEN /\ Finish(p, [status |-> 400, error |-> "Image processing failed"])
                /\ UNCHANGED <<req, next_slug>>
           ELSE /\ pc' = [pc EXCEPT ![p] = "create_upload"]
                /\ req' = [req EXCEPT ![p] =
                              Prepared(r, "api", r.current_user, f, loaded,
                                       ApiNewCard(r.current_user, next_slug, f))]
                /\ next_slug' = next_slug + 1
                /\ resp' = resp
    /\ UNCHANGED <<now, db, next_key, created, redirected, outbox>>

\* /dashboard/cards/create with the session of who, from CSRFProtect and
\* login_required to the slug (dashboard/routes.py 53-82).
cards_create(p, who, method, csrf, f) ==
    /\ pc[p] = "idle"
    /\ LET r == [op |-> "create_card", via |-> "dashboard", current_user |-> who,
                 method |-> method, form |-> f]
           loaded == users[who]
       IN  IF method = "POST" /\ f.image.size > MAX_CONTENT_LENGTH
           THEN /\ Finish(p, [status |-> 413, error |-> "Request Entity Too Large"])
                /\ req' = [req EXCEPT ![p] = r]
                /\ UNCHANGED next_slug
           ELSE IF method = "POST" /\ ~csrf
           THEN /\ Finish(p, [status |-> 400, error |-> "CSRF"])
                /\ req' = [req EXCEPT ![p] = r]
                /\ UNCHANGED next_slug
           ELSE IF who = NoUser
           THEN /\ Finish(p, [status |-> 302, location |-> "auth.login"])
                /\ req' = [req EXCEPT ![p] = r]
                /\ UNCHANGED next_slug
           ELSE IF ~can_create_card(loaded, now)
           THEN /\ Finish(p, [status |-> 302, location |-> "dashboard.cards_list",
                              flash |-> "monthly limit"])
                /\ req' = [req EXCEPT ![p] = r]
                /\ UNCHANGED next_slug
           ELSE IF method # "POST" \/ ~CardFormValid(f)
           THEN /\ Finish(p, [status |-> 200, template |-> "dashboard/cards/create.html",
                              flash |-> "none"])
                /\ req' = [req EXCEPT ![p] = r]
                /\ UNCHANGED next_slug
           ELSE IF ImageError(f.image, f.card_type) # "ok"
           THEN /\ Finish(p, [status |-> 200, template |-> "dashboard/cards/create.html",
                              flash |-> "Image error"])
                /\ req' = [req EXCEPT ![p] = r]
                /\ UNCHANGED next_slug
           ELSE /\ pc' = [pc EXCEPT ![p] = "create_upload"]
                /\ req' = [req EXCEPT ![p] =
                              Prepared(r, "dashboard", who, f, loaded,
                                       DashboardNewCard(who, next_slug, f))]
                /\ next_slug' = next_slug + 1
                /\ resp' = resp
    /\ UNCHANGED <<now, db, next_key, created, redirected, outbox>>

\* The answer of either handler when storage.upload raises.
UploadFailed(via) ==
    IF via = "api" THEN [status |-> 500, error |-> "Upload failed"]
    ELSE [status |-> 200, template |-> "dashboard/cards/create.html",
          flash |-> "Failed to upload image"]

\* storage.upload of the original and of the PNG; either may raise.
create_upload(p, outcome) ==
    /\ pc[p] = "create_upload"
    /\ LET r == req[p]
           original == upload(storage, r.card.image_original_key,
                              OriginalData(r.form.image))
       IN  \/ /\ outcome = "first upload raises"
              /\ Finish(p, UploadFailed(r.via))
              /\ UNCHANGED storage
           \/ /\ outcome = "second upload raises"
              /\ Finish(p, UploadFailed(r.via))
              /\ storage' = original
           \/ /\ outcome = "stored"
              /\ storage' = upload(original, r.card.image_processed_key,
                                   ProcessedData(r.form.image, r.card.card_type))
              /\ pc' = [pc EXCEPT ![p] = "create_commit"]
              /\ resp' = resp
    /\ UNCHANGED <<now, users, cards, api_keys, next_slug, next_key, req,
                   created, redirected, outbox>>

Created(via, slug, card) ==
    IF via = "api" THEN [status |-> 201, id |-> slug, card |-> card]
    ELSE [status |-> 302, location |-> "dashboard.cards_list",
          flash |-> "Card created successfully!"]

\* user.increment_card_count(); db.session.add(card); db.session.commit()
create_commit(p) ==
    /\ pc[p] = "create_commit"
    /\ LET r == req[p]
           user == increment_card_count(r.user, now)
       IN  /\ users' = [users EXCEPT ![r.current_user] =
                           WriteChanged(@, r.loaded, user)]
           /\ cards' = (r.slug :> r.card) @@ cards
           /\ created' = created \cup
                  {[slug |-> r.slug, user |-> r.current_user, at |-> now]}
           /\ redirected' = (r.slug :> 0) @@ redirected
           /\ req' = [req EXCEPT ![p].user = user]
           /\ Finish(p, Created(r.via, r.slug, r.card))
    /\ UNCHANGED <<now, api_keys, storage, next_slug, next_key, outbox>>

\* ------------------------------------------------------------------ serving a card
\* Non-bot visits of card slug that have not been answered yet.
Visiting(slug) ==
    {q \in Procs : pc[q] \in {"view_commit", "view_redirect"} /\ req[q].slug = slug}
ViewsLeft(slug) ==
    slug \in DOMAIN redirected =>
        redirected[slug] + Cardinality(Visiting(slug)) < MaxViews

\* increment_views, counting twice
increment_views_twice(card) == [card EXCEPT !.view_count = @ + 2]

\* Card.increment_views: the card object afterwards.
increment_views(card) == [card EXCEPT !.view_count = @ + 1]

\* GET /c/<slug>: the query, the 404 and the crawler's page (cards/routes.py 13-29).
serve_card(p, slug, user_agent) ==
    /\ pc[p] = "idle"
    /\ LET r == [op |-> "serve_card", slug |-> slug, user_agent |-> user_agent]
       IN  IF slug \notin DOMAIN cards
           THEN /\ Finish(p, [status |-> 404])
                /\ req' = [req EXCEPT ![p] = r]
           ELSE IF is_bot(user_agent)
           THEN /\ Finish(p, [status |-> 200, template |-> "cards/meta.html",
                              card |-> cards[slug]])
                /\ req' = [req EXCEPT ![p] = r]
           ELSE /\ pc' = [pc EXCEPT ![p] = "view_commit"]
                /\ req' = [req EXCEPT ![p] = r @@ [card |-> cards[slug]]]
                /\ resp' = resp
    /\ UNCHANGED <<now, db, next_slug, next_key, created, redirected, outbox>>

\* card.increment_views(); db.session.commit()  (cards/routes.py 31-33).
\* The UPDATE of a row that is gone raises StaleDataError: a 500.
serve_card_commit(p) ==
    /\ pc[p] = "view_commit"
    /\ LET r == req[p]
           card == increment_views(r.card)
       IN  IF r.slug \notin DOMAIN cards
           THEN /\ Finish(p, [status |-> 500])
                /\ UNCHANGED <<cards, req>>
           ELSE /\ cards' = [cards EXCEPT ![r.slug] = WriteChanged(@, r.card, card)]
                /\ req' = [req EXCEPT ![p].card = card]
                /\ pc' = [pc EXCEPT ![p] = "view_redirect"]
                /\ resp' = resp
    /\ UNCHANGED <<now, users, api_keys, storage, next_slug, next_key,
                   created, redirected, outbox>>

\* redirect(card.destination_url, code=302)  (cards/routes.py 36): the commit
\* has expired the object, so the attribute is read from the table again.
serve_card_redirect(p) ==
    /\ pc[p] = "view_redirect"
    /\ LET r == req[p]
       IN  IF r.slug \notin DOMAIN cards
           THEN /\ Finish(p, [status |-> 500])
                /\ UNCHANGED redirected
           ELSE /\ Finish(p, [status |-> 302,
                              location |-> cards[r.slug].destination_url])
                /\ redirected' = [redirected EXCEPT ![r.slug] = @ + 1]
    /\ UNCHANGED <<now, db, next_slug, next_key, req, created, outbox>>

\* GET /i/<slug>.png under STORAGE_BACKEND backend (cards/routes.py 39-70).
serve_image(p, slug, backend) ==
    /\ pc[p] = "idle"
    /\ req' = [req EXCEPT ![p] = [op |-> "serve_image", slug |-> slug]]
    /\ IF slug \notin DOMAIN cards
       THEN Finish(p, [status |-> 404])
       ELSE IF backend = "r2"
       THEN Finish(p, [status |-> 302, location |-> cards[slug].image_processed_key])
       ELSE IF cards[slug].image_processed_key \notin DOMAIN storage
       THEN Finish(p, [status |-> 404])
       ELSE Finish(p, [status |-> 200, mimetype |-> "image/png",
                       data |-> storage[cards[slug].image_processed_key]])
    /\ UNCHANGED <<now, db, next_slug, next_key, created, redirected, outbox>>

\* ------------------------------------------------------------------ card CRUD
\* the card query without user_id=user_id
OwnedByAnyone(card_id, user_id) == card_id \in DOMAIN cards

\* Card.query.filter_by(id=card_id, user_id=user_id).first()
Owned(card_id, user_id) ==
    card_id \in DOMAIN cards /\ cards[card_id].user_id = user_id

\* card_to_dict
card_to_dict(card_id) == [id |-> card_id] @@ cards[card_id]

\* GET /api/v1/cards/<card_id>, after require_api_key
get_card(p) ==
    /\ pc[p] = "get_card"
    /\ IF ~Owned(req[p].card_id, req[p].current_user)
       THEN Finish(p, [status |-> 404])
       ELSE Finish(p, [status |-> 200, card |-> card_to_dict(req[p].card_id)])
    /\ UNCHANGED <<now, db, next_slug, next_key, req, created, redirected, outbox>>

\* GET /api/v1/cards, after require_api_key
list_cards(p) ==
    /\ pc[p] = "list_cards"
    /\ Finish(p, [status |-> 200,
                  cards |-> {card_to_dict(c) : c \in
                               {c \in DOMAIN cards :
                                   cards[c].user_id = req[p].current_user}}])
    /\ UNCHANGED <<now, db, next_slug, next_key, req, created, redirected, outbox>>

\* The JSON body of PATCH: a key that is missing is AbsentText, null is NoneText.
AbsentText == Text("absent", 0, 0, 0, FALSE)
Patch(title, description, destination_url) ==
    [title |-> title, description |-> description,
     destination_url |-> destination_url]

\* data['description'].strip() if data['description'] else ''
PatchDescription(d) ==
    IF Truthy(d.description) THEN strip(d.description) ELSE EmptyText

\* update_card's checks, in their order: "ok", the error of the 400 answer,
\* or the AttributeError of None.strip().
UpdateError(d) ==
    IF d.title # AbsentText /\ d.title = NoneText THEN "AttributeError"
    ELSE IF d.title # AbsentText /\ ~Truthy(strip(d.title)) THEN "Invalid title"
    ELSE IF d.title # AbsentText /\ TextLen(strip(d.title)) > 200 THEN "Title too long"
    ELSE IF d.description # AbsentText /\ TextLen(PatchDescription(d)) > 500
    THEN "Description too long"
    ELSE IF d.destination_url # AbsentText /\ d.destination_url = NoneText
    THEN "AttributeError"
    ELSE IF d.destination_url # AbsentText /\ ~Truthy(strip(d.destination_url))
    THEN "Invalid destination_url"
    ELSE "ok"

\* update_card assigning every field, the keys missing from the body too
PatchedAllKeys(card, d) ==
    [card EXCEPT
        !.title = IF d.title = AbsentText THEN @ ELSE strip(d.title),
        !.description = OrNone(PatchDescription(d)),
        !.destination_url = IF d.destination_url = AbsentText THEN @
                            ELSE strip(d.destination_url)]
\* The card object after update_card's assignments.
Patched(card, d) ==
    [card EXCEPT
        !.title = IF d.title = AbsentText THEN @ ELSE strip(d.title),
        !.description = IF d.description = AbsentText THEN @
                        ELSE OrNone(PatchDescription(d)),
        !.destination_url = IF d.destination_url = AbsentText THEN @
                            ELSE strip(d.destination_url)]

\* PATCH /api/v1/cards/<card_id>, after require_api_key
update_card(p) ==
    /\ pc[p] = "update_card"
    /\ LET r == req[p]
       IN  IF ~Owned(r.card_id, r.current_user)
           THEN Finish(p, [status |-> 404]) /\ UNCHANGED cards
           ELSE IF UpdateError(r.data) = "AttributeError"
           THEN Finish(p, [status |-> 500]) /\ UNCHANGED cards
           ELSE IF UpdateError(r.data) # "ok"
           THEN /\ Finish(p, [status |-> 400, error |-> UpdateError(r.data)])
                /\ UNCHANGED cards
           ELSE /\ cards' = [cards EXCEPT ![r.card_id] =
                               WriteChanged(@, @, Patched(@, r.data))]
                /\ Finish(p, [status |-> 200,
                              card |-> [id |-> r.card_id] @@ cards'[r.card_id]])
    /\ UNCHANGED <<now, users, api_keys, storage, next_slug, next_key, req,
                   created, redirected, outbox>>

\* storage.delete of both images; each returns False instead of raising when
\* the backend fails (gone says which deletions took effect).
DeleteImages(card, gone) ==
    LET first == IF "original" \in gone
                 THEN delete(storage, card.image_original_key) ELSE storage
    IN  IF "processed" \in gone
        THEN delete(first, card.image_processed_key) ELSE first

\* db.session.delete(card); db.session.commit()
DeleteRow(card_id) == [c \in (DOMAIN cards) \ {card_id} |-> cards[c]]

\* DELETE /api/v1/cards/<card_id>, after require_api_key
delete_card(p, gone) ==
    /\ pc[p] = "delete_card"
    /\ LET r == req[p]
       IN  IF ~Owned(r.card_id, r.current_user)
           THEN Finish(p, [status |-> 404]) /\ UNCHANGED <<cards, storage>>
           ELSE /\ storage' = DeleteImages(cards[r.card_id], gone)
                /\ cards' = DeleteRow(r.card_id)
                /\ Finish(p, [status |-> 200, message |-> "Card deleted successfully"])
    /\ UNCHANGED <<now, users, api_keys, next_slug, next_key, req,
                   created, redirected, outbox>>

\* What CSRFProtect and login_required answer before a dashboard view runs;
\* NoResp when the view runs.
DashboardGate(method, csrf, who) ==
    IF method = "POST" /\ ~csrf THEN [status |-> 400, error |-> "CSRF"]
    ELSE IF who = NoUser THEN [status |-> 302, location |-> "auth.login"]
    ELSE NoResp

\* The card object after cards_edit's assignments.
Edited(card, f) ==
    [card EXCEPT
        !.title = strip(f.title),
        !.description = IF Truthy(f.description) THEN strip(f.description)
                        ELSE NoneText,
        !.destination_url = strip(f.destination_url)]

\* /dashboard/cards/<card_id>/edit with the session of who
cards_edit(p, who, method, csrf, card_id, f) ==
    /\ pc[p] = "idle"
    /\ req' = [req EXCEPT ![p] =
                  [op |-> "update_card", via |-> "dashboard", current_user |-> who,
                   method |-> method, csrf |-> csrf, card_id |-> card_id,
                   form |-> f]]
    /\ IF DashboardGate(method, csrf, who) # NoResp
       THEN Finish(p, DashboardGate(method, csrf, who)) /\ UNCHANGED cards
       ELSE IF ~Owned(card_id, who)
       THEN Finish(p, [status |-> 404]) /\ UNCHANGED cards
       ELSE IF method # "POST" \/ ~CardEditFormValid(f)
       THEN /\ Finish(p, [status |-> 200, template |-> "cards/edit.html"])
            /\ UNCHANGED cards
       ELSE /\ cards' = [cards EXCEPT ![card_id] =
                           WriteChanged(@, @, Edited(@, f))]
            /\ Finish(p, [status |-> 302, location |-> "dashboard.cards_list",
                          flash |-> "Card updated successfully!"])
    /\ UNCHANGED <<now, users, api_keys, storage, next_slug, next_key,
                   created, redirected, outbox>>

\* POST /dashboard/cards/<card_id>/delete with the session of who
cards_delete(p, who, csrf, card_id, gone) ==
    /\ pc[p] = "idle"
    /\ req' = [req EXCEPT ![p] =
                  [op |-> "delete_card", via |-> "dashboard", current_user |-> who,
                   method |-> "POST", csrf |-> csrf, card_id |-> card_id]]
    /\ IF DashboardGate("POST", csrf, who) # NoResp
       THEN Finish(p, DashboardGate("POST", csrf, who)) /\ UNCHANGED <<cards, storage>>
       ELSE IF ~Owned(card_id, who)
       THEN Finish(p, [status |-> 404]) /\ UNCHANGED <<cards, storage>>
       ELSE /\ storage' = DeleteImages(cards[card_id], gone)
            /\ cards' = DeleteRow(card_id)
            /\ Finish(p, [status |-> 302, location |-> "dashboard.cards_list",
                          flash |-> "Card deleted successfully!"])
    /\ UNCHANGED <<now, users, api_keys, next_slug, next_key, created, redirected, outbox>>

\* ------------------------------------------------------------------ API keys
\* api_key_to_dict(key)
api_key_to_dict(key_id) ==
    [id |-> key_id, name |-> api_keys[key_id].name,
     key_prefix |-> api_keys[key_id].key_prefix,
     last_used_at |-> api_keys[key_id].last_used_at,
     is_active |-> is_active(api_keys[key_id])]

\* APIKey.query.filter_by(user_id=user_id).all()
KeysOf(user_id) == {k \in DOMAIN api_keys : api_keys[k].user_id = user_id}

\* GET /api/v1/keys, after require_api_key
list_keys(p) ==
    /\ pc[p] = "list_keys"
    /\ Finish(p, [status |-> 200,
                  keys |-> {api_key_to_dict(k) : k \in KeysOf(req[p].current_user)}])
    /\ UNCHANGED <<now, db, next_slug, next_key, req, created, redirected, outbox>>

\* POST /api/v1/keys, after require_api_key; name is data.get('name', '')
create_key(p) ==
    /\ pc[p] = "create_key"
    /\ LET r == req[p]
           raw_key == generate_key(next_key)
       IN  IF r.name = NoneText
           THEN Finish(p, [status |-> 500]) /\ UNCHANGED <<api_keys, next_key>>
           ELSE IF ~Truthy(strip(r.name))
           THEN /\ Finish(p, [status |-> 400, error |-> "Missing name"])
                /\ UNCHANGED <<api_keys, next_key>>
           ELSE IF TextLen(strip(r.name)) > 100
           THEN /\ Finish(p, [status |-> 400, error |-> "Name too long"])
                /\ UNCHANGED <<api_keys, next_key>>
           ELSE /\ api_keys' = (next_key :> APIKeyCreate(r.current_user,
                                                          strip(r.name), raw_key))
                               @@ api_keys
                /\ next_key' = next_key + 1
                /\ Finish(p, [status |-> 201, id |-> next_key, key |-> raw_key,
                              warning |-> "Save this key now! It will not be shown again."])
    /\ UNCHANGED <<now, users, cards, storage, next_slug, req, created, redirected, outbox>>

\* DELETE /api/v1/keys/<key_id>, after require_api_key
revoke_key(p) ==
    /\ pc[p] = "revoke_key"
    /\ LET r == req[p]
       IN  IF r.key_id \notin KeysOf(r.current_user)
           THEN Finish(p, [status |-> 404]) /\ UNCHANGED api_keys
           ELSE IF ~is_active(api_keys[r.key_id])
           THEN /\ Finish(p, [status |-> 400, error |-> "Key already revoked"])
                /\ UNCHANGED api_keys
           ELSE IF r.key_id = r.api_key
           THEN /\ Finish(p, [status |-> 400, error |-> "Cannot revoke current key"])
                /\ UNCHANGED api_keys
           ELSE /\ api_keys' = [api_keys EXCEPT ![r.key_id] = revoke(@, now)]
                /\ Finish(p, [status |-> 200, message |-> "API key revoked successfully",
                              keys |-> {[id |-> r.key_id,
                                         name |-> api_keys'[r.key_id].name,
                                         key_prefix |-> api_keys'[r.key_id].key_prefix,
                                         last_used_at |-> api_keys'[r.key_id].last_used_at,
                                         is_active |-> is_active(api_keys'[r.key_id])]}])
    /\ UNCHANGED <<now, users, cards, storage, next_slug, next_key, req,
                   created, redirected, outbox>>

\* GET /dashboard/api-keys?new_key=<new_key> with the session of who: the
\* page is what render_template is given.
dashboard_api_keys(p, who, new_key) ==
    /\ pc[p] = "idle"
    /\ req' = [req EXCEPT ![p] =
                  [op |-> "api_keys", via |-> "dashboard", current_user |-> who,
                   new_key |-> new_key]]
    /\ IF DashboardGate("GET", TRUE, who) # NoResp
       THEN Finish(p, DashboardGate("GET", TRUE, who))
       ELSE Finish(p, [status |-> 200, template |-> "dashboard/api_keys/list.html",
                       keys |-> {api_key_to_dict(k) : k \in KeysOf(who)},
                       new_key |-> new_key])
    /\ UNCHANGED <<now, db, next_slug, next_key, created, redirected, outbox>>

\* APIKeyForm.validate
APIKeyFormValid(name) == DataRequired(name) /\ TextLen(name) <= 100

\* POST /dashboard/api-keys/create with the session of who
api_keys_create(p, who, csrf, name) ==
    /\ pc[p] = "idle"
    /\ req' = [req EXCEPT ![p] =
                  [op |-> "create_key", via |-> "dashboard", current_user |-> who,
                   name |-> name]]
    /\ LET raw_key == generate_key(next_key)
       IN  IF DashboardGate("POST", csrf, who) # NoResp
           THEN /\ Finish(p, DashboardGate("POST", csrf, who))
                /\ UNCHANGED <<api_keys, next_key>>
           ELSE IF ~APIKeyFormValid(name)
           THEN /\ Finish(p, [status |-> 302, location |-> "dashboard.api_keys",
                              flash |-> "Please provide a name for the API key."])
                /\ UNCHANGED <<api_keys, next_key>>
           ELSE /\ api_keys' = (next_key :> APIKeyCreate(who, strip(name), raw_key))
                               @@ api_keys
                /\ next_key' = next_key + 1
                /\ Finish(p, [status |-> 302, location |-> "dashboard.api_keys",
                              id |-> next_key, new_key |-> raw_key,
                              flash |-> "API key created! Copy it now - it won't be shown again."])
    /\ UNCHANGED <<now, users, cards, storage, next_slug, created, redirected, outbox>>

\* POST /dashboard/api-keys/<key_id>/revoke with the session of who
api_keys_revoke(p, who, csrf, key_id) ==
    /\ pc[p] = "idle"
    /\ req' = [req EXCEPT ![p] =
                  [op |-> "revoke_key", via |-> "dashboard", current_user |-> who,
                   key_id |-> key_id]]
    /\ IF DashboardGate("POST", csrf, who) # NoResp
       THEN Finish(p, DashboardGate("POST", csrf, who)) /\ UNCHANGED api_keys
       ELSE IF key_id \notin KeysOf(who)
       THEN Finish(p, [status |-> 404]) /\ UNCHANGED api_keys
       ELSE IF ~is_active(api_keys[key_id])
       THEN /\ Finish(p, [status |-> 302, location |-> "dashboard.api_keys",
                          flash |-> "This key has already been revoked."])
            /\ UNCHANGED api_keys
       ELSE /\ api_keys' = [api_keys EXCEPT ![key_id] = revoke(@, now)]
            /\ Finish(p, [status |-> 302, location |-> "dashboard.api_keys",
                          flash |-> "API key revoked successfully."])
    /\ UNCHANGED <<now, users, cards, storage, next_slug, next_key,
                   created, redirected, outbox>>

\* ------------------------------------------------------------------ admin
\* an admin_required that asks for a login only
logged_in(who) == who # NoUser
\* admin_required lets the view run.
admin_required(who) == who # NoUser /\ users[who].is_admin
\* NoResp when the view runs: CSRF, then login_required, then admin_required.
AdminGate(csrf, who) ==
    IF DashboardGate("POST", csrf, who) # NoResp THEN DashboardGate("POST", csrf, who)
    ELSE IF ~admin_required(who)
    THEN [status |-> 302, location |-> "dashboard.index", flash |-> "Admin access required."]
    ELSE NoResp
ToUsers(flash) == [status |-> 302, location |-> "admin.users", flash |-> flash]
UserTier == {"free", "core", "premium"}

\* POST /admin/users/<user_id>/tier with the session of who
update_tier(p, who, csrf, user_id, new_tier) ==
    /\ pc[p] = "idle"
    /\ req' = [req EXCEPT ![p] =
                  [op |-> "update_tier", via |-> "admin", current_user |-> who,
                   user_id |-> user_id, tier |-> new_tier]]
    /\ IF AdminGate(csrf, who) # NoResp
       THEN Finish(p, AdminGate(csrf, who)) /\ UNCHANGED users
       ELSE IF user_id \notin DOMAIN users
       THEN Finish(p, [status |-> 404]) /\ UNCHANGED users
       ELSE IF new_tier \notin UserTier
       THEN Finish(p, ToUsers("Invalid tier selected.")) /\ UNCHANGED users
       ELSE IF user_id = who
       THEN Finish(p, ToUsers("You cannot change your own tier.")) /\ UNCHANGED users
       ELSE /\ users' = [users EXCEPT ![user_id] =
                           WriteChanged(@, @, [@ EXCEPT !.tier = new_tier])]
            /\ Finish(p, ToUsers("Updated"))
    /\ UNCHANGED <<now, cards, api_keys, storage, next_slug, next_key,
                   created, redirected, outbox>>

\* POST /admin/users/<user_id>/admin with the session of who
toggle_admin(p, who, csrf, user_id) ==
    /\ pc[p] = "idle"
    /\ req' = [req EXCEPT ![p] =
                  [op |-> "toggle_admin", via |-> "admin", current_user |-> who,
                   user_id |-> user_id]]
    /\ IF AdminGate(csrf, who) # NoResp
       THEN Finish(p, AdminGate(csrf, who)) /\ UNCHANGED users
       ELSE IF user_id \notin DOMAIN users
       THEN Finish(p, [status |-> 404]) /\ UNCHANGED users
       ELSE IF user_id = who
       THEN Finish(p, ToUsers("You cannot change your own admin status."))
            /\ UNCHANGED users
       ELSE /\ users' = [users EXCEPT ![user_id] =
                           WriteChanged(@, @, [@ EXCEPT !.is_admin = ~@])]
            /\ Finish(p, ToUsers("is now"))
    /\ UNCHANGED <<now, cards, api_keys, storage, next_slug, next_key,
                   created, redirected, outbox>>

\* POST /admin/cards/<card_id>/delete with the session of who
admin_delete_card(p, who, csrf, card_id, gone) ==
    /\ pc[p] = "idle"
    /\ req' = [req EXCEPT ![p] =
                  [op |-> "admin_delete_card", via |-> "admin", current_user |-> who,
                   card_id |-> card_id]]
    /\ IF AdminGate(csrf, who) # NoResp
       THEN Finish(p, AdminGate(csrf, who)) /\ UNCHANGED <<cards, storage>>
       ELSE IF card_id \notin DOMAIN cards
       THEN Finish(p, [status |-> 404]) /\ UNCHANGED <<cards, storage>>
       ELSE /\ storage' = DeleteImages(cards[card_id], gone)
            /\ cards' = DeleteRow(card_id)
            /\ Finish(p, [status |-> 302, location |-> "admin.cards",
                          flash |-> "Card deleted successfully."])
    /\ UNCHANGED <<now, users, api_keys, next_slug, next_key, created, redirected, outbox>>

\* ------------------------------------------------------------------ accounts
\* A mail handed to email_service: the address, which mail it is, the token
\* in its link, and the instant it was written.
Mail(to, kind, token, at) == [to |-> to, kind |-> kind, token |-> token, at |-> at]

\* secrets.token_urlsafe(32): a string no mail has carried yet
token_urlsafe == Token(0, 1 + Cardinality(outbox))

\* An address or a password is the sequence of its characters.
DataRequiredStr(str) == \E i \in 1..Len(str) : str[i] # " "
\* wtforms Email(): one "@", something before it, a dotted domain after it
Email(str) ==
    \E i \in 2..(Len(str) - 3) :
        /\ str[i] = "@"
        /\ \A j \in 1..Len(str) : str[j] = "@" => j = i
        /\ \E k \in (i + 2)..(Len(str) - 1) : str[k] = "."
MinPassword == 8

\* User.query.filter_by(email=...).first(): the column is unique
ByEmail(email) == {u \in DOMAIN users : users[u].email = email}
ByToken(token) == {u \in DOMAIN users : users[u].email_verification_token = token}
First(found) == CHOOSE u \in found : TRUE

set_password(u, password) == [u EXCEPT !.password_hash = generate_password_hash(password)]
\* check_password with the hash guard turned round
check_password_unguarded(u, password) ==
    IF u.password_hash # NoHash THEN FALSE
    ELSE TRUE
check_password(u, password) ==
    IF u.password_hash = NoHash THEN FALSE
    ELSE check_password_hash(u.password_hash, password)

\* flask_wtf: a POST without the CSRF token is answered 400.
AuthGate(method, csrf) ==
    IF method = "POST" /\ ~csrf THEN [status |-> 400, error |-> "CSRF"] ELSE NoResp
ToDashboard == [status |-> 302, location |-> "dashboard.index"]
ToLogin(flash) == [status |-> 302, location |-> "auth.login", flash |-> flash]

LoginFormValid(email, password) ==
    DataRequiredStr(email) /\ Email(email) /\ DataRequiredStr(password)

\* GET or POST /auth/login, without a next argument
login(p, who, method, csrf, email, password) ==
    /\ pc[p] = "idle"
    /\ req' = [req EXCEPT ![p] =
                  [op |-> "login", current_user |-> who, method |-> method,
                   email |-> email, password |-> password]]
    /\ LET found == ByEmail(lower(email))
       IN  IF AuthGate(method, csrf) # NoResp THEN Finish(p, AuthGate(method, csrf))
           ELSE IF who # NoUser THEN Finish(p, ToDashboard)
           ELSE IF method = "POST" /\ LoginFormValid(email, password)
           THEN IF found # {} /\ check_password(users[First(found)], password)
                THEN IF ~users[First(found)].email_verified
                     THEN Finish(p, ToLogin("Please verify your email address before logging in."))
                     ELSE Finish(p, [status |-> 302, location |-> "dashboard.index",
                                     session |-> First(found)])
                ELSE Finish(p, [status |-> 200, template |-> "auth/login.html",
                                flash |-> "Invalid email or password."])
           ELSE Finish(p, [status |-> 200, template |-> "auth/login.html"])
    /\ UNCHANGED <<now, db, next_slug, next_key, created, redirected, outbox>>

RegistrationFormValid(email, password, confirm) ==
    /\ DataRequiredStr(email) /\ Email(email)
    /\ ByEmail(lower(email)) = {}
    /\ DataRequiredStr(password) /\ Len(password) >= MinPassword
    /\ DataRequiredStr(confirm) /\ confirm = password

\* The id of the next row of users.
NewUserId == "u3"

\* GET or POST /auth/register
register(p, who, method, csrf, email, password, confirm) ==
    /\ pc[p] = "idle"
    /\ req' = [req EXCEPT ![p] =
                  [op |-> "register", current_user |-> who, method |-> method,
                   email |-> email, password |-> password]]
    /\ IF AuthGate(method, csrf) # NoResp
       THEN Finish(p, AuthGate(method, csrf)) /\ UNCHANGED <<users, outbox>>
       ELSE IF who # NoUser
       THEN Finish(p, ToDashboard) /\ UNCHANGED <<users, outbox>>
       ELSE IF method = "POST" /\ RegistrationFormValid(email, password, confirm)
       THEN /\ NewUserId \notin DOMAIN users
            /\ users' = (NewUserId :>
                           set_password(NewUser(FALSE, "free", FALSE, now)
                                        @@ Account(lower(email), NoHash, token_urlsafe),
                                        password))
                        @@ users
            /\ outbox' = outbox \cup {Mail(lower(email), "verification", token_urlsafe, now)}
            /\ Finish(p, ToLogin("Account created! Please check your email to verify your address."))
       ELSE Finish(p, [status |-> 200, template |-> "auth/register.html"])
            /\ UNCHANGED <<users, outbox>>
    /\ UNCHANGED <<now, cards, api_keys, storage, next_slug, next_key, created, redirected>>

\* verify_email without the assignment that clears the token
VerifiedKeepingToken(u) == [u EXCEPT !.email_verified = TRUE]
\* The user after verify_email's assignments.
Verified(u) == [u EXCEPT !.email_verified = TRUE, !.email_verification_token = NoToken]

\* GET /auth/verify/<token>
verify_email(p, token) ==
    /\ pc[p] = "idle"
    /\ req' = [req EXCEPT ![p] = [op |-> "verify_email", token |-> token]]
    /\ LET found == ByToken(token)
       IN  IF found = {}
           THEN /\ Finish(p, ToLogin("Invalid or expired verification link."))
                /\ UNCHANGED <<users, outbox>>
           ELSE IF users[First(found)].email_verified
           THEN /\ Finish(p, ToLogin("Email already verified."))
                /\ UNCHANGED <<users, outbox>>
           ELSE /\ users' = [users EXCEPT ![First(found)] = Verified(@)]
                /\ outbox' = outbox \cup
                      {Mail(users[First(found)].email, "welcome", NoToken, now)}
                /\ Finish(p, ToLogin("Email verified successfully! You can now log in."))
    /\ UNCHANGED <<now, cards, api_keys, storage, next_slug, next_key, created, redirected>>

\* The answer of resend_verification, had it told whether the address is known
resend_answer_telling(found) ==
    IF found = {} THEN ToLogin("No account with that email.")
    ELSE ToLogin("If an account exists with that email, a verification link has been sent.")
\* The answer of resend_verification to an address, found or not.
resend_answer(found) ==
    ToLogin("If an account exists with that email, a verification link has been sent.")

\* POST /auth/resend-verification
resend_verification(p, csrf, email) ==
    /\ pc[p] = "idle"
    /\ req' = [req EXCEPT ![p] =
                  [op |-> "resend_verification", method |-> "POST", email |-> email]]
    /\ LET found == ByEmail(lower(email))
       IN  IF AuthGate("POST", csrf) # NoResp
           THEN Finish(p, AuthGate("POST", csrf)) /\ UNCHANGED <<users, outbox>>
           ELSE IF lower(email) = <<>>
           THEN /\ Finish(p, ToLogin("Please provide an email address."))
                /\ UNCHANGED <<users, outbox>>
           ELSE /\ IF found # {} /\ ~users[First(found)].email_verified
                   THEN /\ users' = [users EXCEPT ![First(found)].email_verification_token =
                                        token_urlsafe]
                        /\ outbox' = outbox \cup
                              {Mail(users[First(found)].email, "verification",
                                    token_urlsafe, now)}
                   ELSE UNCHANGED <<users, outbox>>
                /\ Finish(p, resend_answer(found))
    /\ UNCHANGED <<now, cards, api_keys, storage, next_slug, next_key, created, redirected>>

ForgotPasswordFormValid(email) == DataRequiredStr(email) /\ Email(email)

\* GET or POST /auth/forgot-password
forgot_password(p, who, method, csrf, email) ==
    /\ pc[p] = "idle"
    /\ req' = [req EXCEPT ![p] =
                  [op |-> "forgot_password", current_user |-> who, method |-> method,
                   email |-> email]]
    /\ LET found == ByEmail(lower(email))
       IN  IF AuthGate(method, csrf) # NoResp
           THEN Finish(p, AuthGate(method, csrf)) /\ UNCHANGED <<users, outbox>>
           ELSE IF who # NoUser
           THEN Finish(p, ToDashboard) /\ UNCHANGED <<users, outbox>>
           ELSE IF method = "POST" /\ ForgotPasswordFormValid(email)
           THEN /\ IF found # {} /\ users[First(found)].email_verified
                   THEN /\ users' = [users EXCEPT ![First(found)].email_verification_token =
                                        ResetOf(token_urlsafe)]
                        /\ outbox' = outbox \cup
                              {Mail(users[First(found)].email, "password_reset",
                                    token_urlsafe, now)}
                   ELSE UNCHANGED <<users, outbox>>
                /\ Finish(p, ToLogin("If an account exists with that email, a password reset link has been sent."))
           ELSE Finish(p, [status |-> 200, template |-> "auth/forgot_password.html"])
                /\ UNCHANGED <<users, outbox>>
    /\ UNCHANGED <<now, cards, api_keys, storage, next_slug, next_key, created, redirected>>

ResetPasswordFormValid(password, confirm) ==
    /\ DataRequiredStr(password) /\ Len(password) >= MinPassword
    /\ DataRequiredStr(confirm) /\ confirm = password

\* GET or POST /auth/reset-password/<token>
reset_password(p, who, method, csrf, token, password, confirm) ==
    /\ pc[p] = "idle"
    /\ req' = [req EXCEPT ![p] =
                  [op |-> "reset_password", current_user |-> who, method |-> method,
                   token |-> token, password |-> password]]
    /\ LET found == ByToken(ResetOf(token))
       IN  IF AuthGate(method, csrf) # NoResp
           THEN Finish(p, AuthGate(method, csrf)) /\ UNCHANGED users
           ELSE IF who # NoUser
           THEN Finish(p, ToDashboard) /\ UNCHANGED users
           ELSE IF found = {}
           THEN Finish(p, ToLogin("Invalid or expired reset link.")) /\ UNCHANGED users
           ELSE IF method = "POST" /\ ResetPasswordFormValid(password, confirm)
           THEN /\ users' = [users EXCEPT ![First(found)] =
                                [set_password(@, password) EXCEPT
                                    !.email_verification_token = NoToken]]
                /\ Finish(p, ToLogin("Password reset successfully! You can now log in."))
           ELSE Finish(p, [status |-> 200, template |-> "auth/reset_password.html"])
                /\ UNCHANGED users
    /\ UNCHANGED <<now, cards, api_keys, storage, next_slug, next_key, created,
                   redirected, outbox>>

\* ------------------------------------------------------------------ resize and crop
\* A Python float above zero is m * 2^(e - 52) with 2^52 <= m < 2^53.  The
\* 53 binary digits of m are held in three parts, m = hi * 2^36 + mid * 2^18
\* + lo, so that no product leaves the ints.  Widths and heights are ints.
Part == 2^18
Top == 2^16
Float(hi, mid, lo, e) == [hi |-> hi, mid |-> mid, lo |-> lo, e |-> e]

\* Round to nearest, ties to even: x holds the digits kept, up says that
\* what was dropped calls for the next float.
Rounded(x, up) ==
    IF ~up THEN x
    ELSE IF x.lo + 1 < Part THEN [x EXCEPT !.lo = @ + 1]
    ELSE IF x.mid + 1 < Part THEN [x EXCEPT !.lo = 0, !.mid = @ + 1]
    ELSE IF x.hi + 1 < 2 * Top THEN [x EXCEPT !.lo = 0, !.mid = 0, !.hi = @ + 1]
    ELSE Float(Top, 0, 0, x.e + 1)

RECURSIVE Normalise(_, _, _)
\* a, b and e with b <= a < 2b and the quotient asked for = (a / b) * 2^e
Normalise(a, b, e) ==
    IF a < b THEN Normalise(2 * a, b, e - 1)
    ELSE IF a >= 2 * b THEN Normalise(a, 2 * b, e + 1)
    ELSE [a |-> a, b |-> b, e |-> e]

\* a / b for ints a and b above zero: the float nearest to the quotient,
\* by long division, 16 and 18 and 18 binary digits at a time
true_div(a, b) ==
    LET n == Normalise(a, b, 0)
        r0 == n.a - n.b
        r1 == (r0 * Top) % n.b
        r2 == (r1 * Part) % n.b
        r3 == (r2 * Part) % n.b
        kept == Float(Top + (r0 * Top) \div n.b, (r1 * Part) \div n.b,
                      (r2 * Part) \div n.b, n.e)
    IN  Rounded(kept, 2 * r3 > n.b \/ (2 * r3 = n.b /\ kept.lo % 2 = 1))

\* n * x for an int n above zero and a float x: the float nearest to the
\* product
mul(n, x) ==
    LET p0 == n * x.lo
        p1 == n * x.mid + p0 \div Part
        p2 == n * x.hi + p1 \div Part
        \* the binary digits of the product beyond 53
        d == CHOOSE k \in 0..12 : Top <= p2 \div 2^k /\ p2 \div 2^k < 2 * Top
        dropped == (p0 % Part) % 2^d
        kept == Float(p2 \div 2^d,
                      (p1 % Part) \div 2^d + (p2 % 2^d) * (Part \div 2^d),
                      (p0 % Part) \div 2^d + ((p1 % Part) % 2^d) * (Part \div 2^d),
                      x.e + d)
    IN  Rounded(kept, /\ d > 0
                      /\ \/ 2 * dropped > 2^d
                         \/ 2 * dropped = 2^d /\ kept.lo % 2 = 1)

\* int(x): the digits before the binary point
int(x) ==
    IF x.e < 0 THEN 0
    ELSE IF x.e <= 16 THEN x.hi \div 2^(16 - x.e)
    ELSE x.hi * 2^(x.e - 16) + x.mid \div 2^(34 - x.e)

\* x > y
Greater(x, y) ==
    \/ x.e > y.e
    \/ x.e = y.e /\ x.hi > y.hi
    \/ x.e = y.e /\ x.hi = y.hi /\ x.mid > y.mid
    \/ x.e = y.e /\ x.hi = y.hi /\ x.mid = y.mid /\ x.lo > y.lo

\* ImageProcessor._resize_and_crop for an image of width x height: the size
\* it resizes to, the box it crops and the size of what crop returns.
resize_and_crop(width, height, target_size) ==
    LET target_w == target_size[1]
        target_h == target_size[2]
        target_ratio == true_div(target_w, target_h)
        img_ratio == true_div(width, height)
        new_h == IF Greater(img_ratio, target_ratio) THEN target_h
                 ELSE int(mul(height, true_div(target_w, width)))
        new_w == IF Greater(img_ratio, target_ratio)
                 THEN int(mul(width, true_div(target_h, height)))
                 ELSE target_w
        left == (new_w - target_w) \div 2
        top == (new_h - target_h) \div 2
    IN  [new_w |-> new_w, new_h |-> new_h,
         box |-> <<left, top, left + target_w, top + target_h>>,
         size |-> <<(left + target_w) - left, (top + target_h) - top>>]

\* Image.open(BytesIO(file_data)): PIL decodes an image of width x height
\* for a card of card_type.
open_image(p, width, height, card_type) ==
    /\ pc[p] = "idle"
    /\ pc' = [pc EXCEPT ![p] = "process"]
    /\ req' = [req EXCEPT ![p] = [op |-> "process", width |-> width,
                                  height |-> height, card_type |-> card_type]]
    /\ UNCHANGED <<now, db, next_slug, next_key, resp, created, redirected, outbox>>

\* ImageProcessor.process of an image PIL has opened, after the card_type
\* check: the worker resizes and crops it.
process_image(p) ==
    /\ pc[p] = "process"
    /\ Finish(p, [status |-> 200] @@
                 resize_and_crop(req[p].width, req[p].height,
                                 DIMENSIONS[req[p].card_type]))
    /\ UNCHANGED <<now, db, next_slug, next_key, req, created, redirected, outbox>>

\* ------------------------------------------------------------------ initial states
\* The tables with two registered users, u2 an administrator, and one API
\* key each; no card yet.
KeyName == Text("k", 0, 1, 0, FALSE)
\* What each user registered with: the address, the password, and the
\* token of the verification mail, which verify_email clears.
EmailOf == [u1 |-> <<"a", "@", "x", ".", "y">>, u2 |-> <<"b", "@", "x", ".", "y">>]
PasswordOf == [u1 |-> <<"p", "a", "s", "s", "w", "o", "r", "d", "1">>,
               u2 |-> <<"p", "a", "s", "s", "w", "o", "r", "d", "2">>]
Registered == [u1 |-> Token(0, 1), u2 |-> Token(0, 2)]
InitWith(verified) ==
    /\ now = 0
    /\ users = [u \in UserIds |->
                  NewUser(verified[u], "free", u = "u2", 0)
                  @@ Account(EmailOf[u], generate_password_hash(PasswordOf[u]),
                             IF verified[u] THEN NoToken ELSE Registered[u])]
    /\ outbox = {Mail(EmailOf[u], "verification", Registered[u], 0) : u \in UserIds}
    /\ api_keys = (1 :> APIKeyCreate("u1", KeyName, generate_key(1)))
                  @@ (2 :> APIKeyCreate("u2", KeyName, generate_key(2)))
    /\ next_key = 3
    /\ cards = <<>>
    /\ storage = <<>>
    /\ next_slug = 1
    /\ pc = [p \in Procs |-> "idle"]
    /\ req = [p \in Procs |-> NoReq]
    /\ resp = [p \in Procs |-> NoResp]
    /\ created = {}
    /\ redirected = <<>>

Init == InitWith([u \in UserIds |-> TRUE])

\* ------------------------------------------------------------------ quota
GoodImage == Image("img1", TRUE, "png", "image/png", 1000, TRUE)
GoodForm == Form(GoodImage, Text("t1", 0, 5, 0, FALSE), EmptyText,
                 Text("http://a", 0, 8, 0, TRUE), "summary")

\* Card creation by u1 through the API and the dashboard, on two workers,
\* while the clock runs.  The uploads succeed here; SpecCards has them fail.
NextQuota ==
    \/ Tick
    \/ \E p \in Procs :
          /\ SlugsLeft
          /\ require_api_key(p, generate_key(1), "create_card",
                             [op |-> "create_card", via |-> "api", form |-> GoodForm])
    \/ \E p \in Procs : create_card(p)
    \/ \E p \in Procs : SlugsLeft /\ cards_create(p, "u1", "POST", TRUE, GoodForm)
    \/ \E p \in Procs, outcome \in {"stored"} :
          create_upload(p, outcome)
    \/ \E p \in Procs : create_commit(p)
    \/ \E p \in Procs : Return(p)

SpecQuota == Init /\ [][NextQuota]_vars

SameMonth(a, b) == YearOf(a) = YearOf(b) /\ MonthOf(a) = MonthOf(b)
OtherMonth(u, t) ==
    u.card_count_reset_at = NoTime \/ ~SameMonth(u.card_count_reset_at, t)

\* The cards user u created in the calendar month of instant t.
CreatedInMonth(u, t) == {c \in created : c.user = u /\ SameMonth(c.at, t)}

\* C1: in no calendar month does a user create more cards than the monthly
\* limit of the user's tier, the API's and the dashboard's creations counted
\* together, whatever the interleaving (no tier changes in SpecQuota).
QuotaNeverExceeded ==
    \A u \in UserIds : \A t \in 0..MaxNow :
        Cardinality(CreatedInMonth(u, t)) <= TIER_LIMITS[users[u].tier]

\* C2, the calls: can_create_card and increment_card_count reset the object
\* (count 0, reset_at now) before they check or increment when reset_at is
\* unset or in another month, and leave it alone when it is in this month.
CanCreateStep(p) == pc[p] \in {"idle", "create_card"} /\ pc'[p] = "create_upload"
IncrementStep(p) == pc[p] = "create_commit" /\ pc'[p] = "done"
ResetFollowsMonthStep ==
    \A p \in Procs :
        /\ CanCreateStep(p) =>
              LET before == users[req'[p].current_user]
                  after == req'[p].user
              IN  IF OtherMonth(before, now)
                  THEN after.monthly_card_count = 0 /\ after.card_count_reset_at = now
                  ELSE after = before
        /\ IncrementStep(p) =>
              LET before == req[p].user
                  after == req'[p].user
              IN  IF OtherMonth(before, now)
                  THEN after.monthly_card_count = 1 /\ after.card_count_reset_at = now
                  ELSE /\ after.monthly_card_count = before.monthly_card_count + 1
                       /\ after.card_count_reset_at = before.card_count_reset_at
ResetFollowsMonth == [][ResetFollowsMonthStep]_vars

\* C2, the counter: while card_count_reset_at lies in the current month the
\* stored monthly_card_count never decreases.
NeverDecreasesStep ==
    \A u \in UserIds :
        (~OtherMonth(users[u], now) /\ ~OtherMonth(users'[u], now'))
            => users'[u].monthly_card_count >= users[u].monthly_card_count

\* C2: the quota counter follows the calendar month: reset by the calls when
\* the month has changed, not reset and never decreasing within one month.
CounterFollowsMonth == [][ResetFollowsMonthStep /\ NeverDecreasesStep]_vars

\* ------------------------------------------------------------------ visits
Chars(a, b, c, d, e, f, g, h) == <<a, b, c, d, e, f, g, h>>
Browser == <<"M", "o", "z", "i", "l", "l", "a">>
Twitterbot == <<"T", "w", "i", "t", "t", "e", "r", "b", "o", "t", "/", "1">>
SLACKBOT == Chars("S", "L", "A", "C", "K", "B", "O", "T")
WhatsApp == <<"x", " ">> \o Chars("W", "h", "a", "t", "s", "A", "p", "p") \o <<"/", "2">>
NearMiss == <<"b", "o", "t">>
\* request.headers.get('User-Agent', ''): a missing header is the empty str.
UserAgents == {<<>>, Browser, Twitterbot, SLACKBOT, WhatsApp, NearMiss}

UrlA == Text("http://a", 0, 8, 0, TRUE)
UrlB == Text("http://b", 0, 8, 0, TRUE)
EditForm == Form(NoImage, Text("t2", 0, 2, 0, FALSE), Text("d2", 0, 2, 0, FALSE),
                 UrlB, Absent)
Slugs == 1..(MaxServed + 1)
Both == {"original", "processed"}

\* One request at a time (worker p1 alone): u1 creates up to MaxServed cards
\* in the dashboard, edits and deletes them; anyone visits /c/<slug> and
\* fetches /i/<slug>.png.
NextServe ==
    \/ /\ next_slug <= MaxServed
       /\ cards_create("p1", "u1", "POST", TRUE, GoodForm)
    \/ create_upload("p1", "stored")
    \/ create_commit("p1")
    \/ \E slug \in Slugs, user_agent \in UserAgents :
          ViewsLeft(slug) /\ serve_card("p1", slug, user_agent)
    \/ serve_card_commit("p1")
    \/ serve_card_redirect("p1")
    \/ \E slug \in Slugs, backend \in {"local", "r2"} : serve_image("p1", slug, backend)
    \/ \E slug \in Slugs : cards_edit("p1", "u1", "POST", TRUE, slug, EditForm)
    \/ \E slug \in Slugs : cards_delete("p1", "u1", TRUE, slug, Both)
    \/ Return("p1")

SpecServe == Init /\ [][NextServe]_vars

\* Two workers: u1 creates one card, and visits of it run concurrently.
NextViews ==
    \/ \E p \in Procs :
          /\ next_slug = 1
          /\ cards_create(p, "u1", "POST", TRUE, GoodForm)
    \/ \E p \in Procs : create_upload(p, "stored")
    \/ \E p \in Procs : create_commit(p)
    \/ \E p \in Procs, user_agent \in {Browser, Twitterbot} :
          ViewsLeft(1) /\ serve_card(p, 1, user_agent)
    \/ \E p \in Procs : serve_card_commit(p)
    \/ \E p \in Procs : serve_card_redirect(p)
    \/ \E p \in Procs : Return(p)

SpecViews == Init /\ [][NextViews]_vars

\* The User-Agent contains a listed crawler name, whatever the case of its
\* letters.
SameLetters(a, b) ==
    Len(a) = Len(b) /\ \A i \in 1..Len(a) : lower_char(a[i]) = lower_char(b[i])
NamesCrawler(user_agent) ==
    \E bot \in BOT_USER_AGENTS :
        \E i \in 1..Len(user_agent) : \E j \in i..Len(user_agent) :
            SameLetters(SubSeq(user_agent, i, j), bot)

\* C3: GET /c/<slug> answers 404 when no card has the slug; for a card, the
\* meta-tag page (no redirect) when the User-Agent names a listed crawler in
\* any letter case, and otherwise (an empty or missing User-Agent too) a 302
\* to the card's current destination_url.
ServeCardAnswers ==
    \A p \in Procs :
        (pc[p] = "done" /\ req[p].op = "serve_card") =>
            IF req[p].slug \notin DOMAIN cards
            THEN resp[p].status = 404
            ELSE IF NamesCrawler(req[p].user_agent)
            THEN /\ resp[p].status = 200
                 /\ resp[p].template = "cards/meta.html"
                 /\ resp[p].card = cards[req[p].slug]
            ELSE /\ resp[p].status = 302
                 /\ resp[p].location = cards[req[p].slug].destination_url

\* An upper-case crawler name got the meta page of a card that was visited
\* and edited before.
ServeCardWitness ==
    /\ pc["p1"] = "done" /\ req["p1"].op = "serve_card"
    /\ req["p1"].user_agent = SLACKBOT
    /\ resp["p1"].status = 200
    /\ resp["p1"].card.destination_url = UrlB
    /\ resp["p1"].card.view_count > 0

\* C4: no increment is lost: once the visits of a card that ran concurrently
\* have all been answered, view_count has grown by their number.
NoIncrementLost ==
    \A slug \in DOMAIN cards :
        Visiting(slug) = {} => cards[slug].view_count = redirected[slug]

\* C5, the count: view_count is the number of non-bot visits served since
\* the card was created (a visit that has committed but not yet answered is
\* counted already).
Committed(slug) == {q \in Procs : pc[q] = "view_redirect" /\ req[q].slug = slug}
ViewsCounted ==
    \A slug \in DOMAIN cards :
        cards[slug].view_count = redirected[slug] + Cardinality(Committed(slug))
\* C5, the frame: only the commit of a non-bot visit of the card changes its
\* view_count, and by exactly 1.
ViewFrameStep ==
    \A slug \in (DOMAIN cards) \cap (DOMAIN cards') :
        cards'[slug].view_count # cards[slug].view_count =>
            /\ cards'[slug].view_count = cards[slug].view_count + 1
            /\ \E p \in Procs :
                  /\ pc[p] = "view_commit" /\ req[p].slug = slug
                  /\ ~NamesCrawler(req[p].user_agent)
VisitStep ==
    \A p \in Procs :
        (pc[p] = "view_commit" /\ pc'[p] = "view_redirect") =>
            cards'[req[p].slug].view_count = cards[req[p].slug].view_count + 1

\* C5: with requests one at a time, view_count equals the number of non-bot
\* visits served since creation: each raises it by 1, and bot visits, image
\* fetches, card updates and requests on other cards leave it unchanged.
ViewCountIsVisits == []ViewsCounted /\ [][ViewFrameStep /\ VisitStep]_vars

\* A bot visit answered for a card that already counts two visits and was
\* edited, while another card exists.
ViewCountWitness ==
    /\ pc["p1"] = "done" /\ req["p1"].op = "serve_card"
    /\ resp["p1"].status = 200
    /\ cards[req["p1"].slug].view_count = 2
    /\ cards[req["p1"].slug].destination_url = UrlB
    /\ Cardinality(DOMAIN cards) = 2

\* ------------------------------------------------------------------ keys in use
\* u2 registered with a password, never verified the address and reached the
\* dashboard through Google (google_callback links the account and logs in
\* without looking at email_verified), where key 2 was created.
InitKeys == InitWith([u \in UserIds |-> u = "u1"])

Headers == {NoHeader, ShortHeader, ForgedHeader} \cup {generate_key(n) : n \in 1..MaxKeys}
GoodName == Text("ci", 1, 2, 0, FALSE)
BlankName == Text("", 2, 0, 0, FALSE)
Sessions == UserIds \cup {NoUser}
\* request.args.get('new_key'): None, or the new_key of the URL that who's
\* browser has in front of it: the redirect api_keys_create just answered,
\* which it follows, or the page it is on, which it reloads.
NewKeys(who) ==
    {NoHeader} \cup
    {resp[q].new_key : q \in {q \in Procs : /\ pc[q] = "done"
                                            /\ "new_key" \in DOMAIN resp[q]
                                            /\ req[q].current_user = who}}

\* One request at a time: listing, creating and revoking keys through the
\* API and the dashboard on worker p1; the key page is served by either
\* worker, so that the answer the browser acts on is still in view.
NextKeys ==
    \/ \E hdr \in Headers :
          require_api_key("p1", hdr, "list_keys", [op |-> "list_keys", via |-> "api"])
    \/ \E hdr \in Headers, name \in {GoodName, BlankName} :
          /\ next_key <= MaxKeys
          /\ require_api_key("p1", hdr, "create_key",
                             [op |-> "create_key", via |-> "api", name |-> name])
    \/ \E hdr \in Headers, key_id \in 1..MaxKeys :
          require_api_key("p1", hdr, "revoke_key",
                          [op |-> "revoke_key", via |-> "api", key_id |-> key_id])
    \/ list_keys("p1")
    \/ create_key("p1")
    \/ revoke_key("p1")
    \/ \E p \in Procs, who \in Sessions : \E new_key \in NewKeys(who) :
          /\ \A q \in Procs : pc[q] \in {"idle", "done"}
          /\ dashboard_api_keys(p, who, new_key)
    \/ \E who \in Sessions, csrf \in BOOLEAN, name \in {GoodName, BlankName} :
          next_key <= MaxKeys /\ api_keys_create("p1", who, csrf, name)
    \/ \E who \in Sessions, key_id \in 1..MaxKeys :
          api_keys_revoke("p1", who, TRUE, key_id)
    \/ \E p \in Procs : Return(p)

SpecKeys == InitKeys /\ [][NextKeys]_vars

\* The keys whose raw key is hdr and that are not revoked.
Presented(hdr) ==
    {k \in DOMAIN api_keys :
        api_keys[k].key_hash = generate_password_hash(hdr) /\ api_keys[k].revoked_at = NoTime}
ApiRequest(p) == pc[p] = "idle" /\ pc'[p] # "idle" /\ "hdr" \in DOMAIN req'[p]

\* C6: an API handler runs only for a request whose X-API-Key is present and
\* is the raw key of an unrevoked key record with a verified owner, and then
\* with that owner as g.current_user; any other request ends at once with
\* 401, or with 403 when the owner of the presented key is unverified, and
\* nothing of users, cards or storage has changed.
HandlerNeedsKeyStep ==
    \A p \in Procs :
        ApiRequest(p) =>
            LET hdr == req'[p].hdr
            IN  IF pc'[p] # "done"
                THEN /\ hdr # NoHeader
                     /\ req'[p].api_key \in Presented(hdr)
                     /\ users[api_keys[req'[p].api_key].user_id].email_verified
                     /\ req'[p].current_user = api_keys[req'[p].api_key].user_id
                ELSE /\ resp'[p].status \in {401, 403}
                     /\ (hdr = NoHeader \/ Presented(hdr) = {}) => resp'[p].status = 401
                     /\ resp'[p].status = 403 =>
                           \E k \in Presented(hdr) : ~users[api_keys[k].user_id].email_verified
                     /\ UNCHANGED <<users, cards, api_keys, storage>>
HandlerNeedsKey == [][HandlerNeedsKeyStep]_vars

\* A handler entered with key 3 while key 1, which has the same first 8
\* characters, is active too.
HandlerNeedsKeyWitness ==
    /\ pc["p1"] = "revoke_key"
    /\ req["p1"].hdr = generate_key(3)
    /\ req["p1"].api_key = 3
    /\ is_active(api_keys[1])

\* C7: a revoked key stays revoked (revoked_at is never cleared) and every
\* request that presents it afterwards is answered 401.
RevokedStep ==
    /\ \A k \in DOMAIN api_keys :
          ~is_active(api_keys[k]) =>
              k \in DOMAIN api_keys' /\ ~is_active(api_keys'[k])
    /\ \A p \in Procs :
          (ApiRequest(p) /\ \E k \in DOMAIN api_keys :
                                /\ ~is_active(api_keys[k])
                                /\ api_keys[k].key_hash = generate_password_hash(req'[p].hdr))
              => pc'[p] = "done" /\ resp'[p].status = 401
RevokedForGood == [][RevokedStep]_vars

\* Key 1, revoked, was presented and refused while key 3 of the same prefix
\* is active.
RevokedWitness ==
    /\ pc["p1"] = "done" /\ "hdr" \in DOMAIN req["p1"]
    /\ req["p1"].hdr = generate_key(1)
    /\ ~is_active(api_keys[1])
    /\ 3 \in DOMAIN api_keys /\ is_active(api_keys[3])
    /\ resp["p1"].status = 401

\* The raw keys a response carries.
KeysIn(r) ==
    (IF "key" \in DOMAIN r THEN {r.key} ELSE {})
        \cup (IF "new_key" \in DOMAIN r THEN {r.new_key} \ {NoHeader} ELSE {})

\* C9: a key record holds the hash and the first 8 characters of the raw key
\* and nothing else of it, and the only response that carries a raw key is
\* the response to the request that created that key.
RawKeyDisclosedOnce ==
    /\ \A k \in DOMAIN api_keys :
          /\ DOMAIN api_keys[k] = {"user_id", "name", "key_hash", "key_prefix",
                                   "last_used_at", "revoked_at"}
          /\ api_keys[k].key_hash = generate_password_hash(generate_key(k))
          /\ api_keys[k].key_prefix = generate_key(k).first8
    /\ \A p \in Procs :
          pc[p] = "done" =>
              \A raw \in KeysIn(resp[p]) :
                  /\ req[p].op = "create_key"
                  /\ raw = generate_key(resp[p].id)

\* ------------------------------------------------------------------ cards of two users
TitlePatch == Patch(Text("t3", 1, 2, 1, FALSE), AbsentText, AbsentText)
FullPatch == Patch(Text("t2", 0, 2, 0, FALSE), Text("d2", 0, 2, 0, FALSE), UrlB)
UserKeys == {generate_key(1), generate_key(2)}

\* One request at a time (worker p1 alone): u1 and u2 create up to MaxServed
\* cards through the API and the dashboard, where an upload may fail, and
\* each reads, lists, changes and deletes cards by any id.
NextCards ==
    \/ \E who \in UserIds :
          next_slug <= MaxServed /\ cards_create("p1", who, "POST", TRUE, GoodForm)
    \/ \E hdr \in UserKeys :
          /\ next_slug <= MaxServed
          /\ require_api_key("p1", hdr, "create_card",
                             [op |-> "create_card", via |-> "api", form |-> GoodForm])
    \/ create_card("p1")
    \/ \E outcome \in {"first upload raises", "second upload raises", "stored"} :
          create_upload("p1", outcome)
    \/ create_commit("p1")
    \/ \E hdr \in UserKeys, card_id \in Slugs :
          require_api_key("p1", hdr, "get_card",
                          [op |-> "get_card", via |-> "api", card_id |-> card_id])
    \/ \E hdr \in UserKeys :
          require_api_key("p1", hdr, "list_cards", [op |-> "list_cards", via |-> "api"])
    \/ \E hdr \in UserKeys, card_id \in Slugs, data \in {TitlePatch, FullPatch} :
          require_api_key("p1", hdr, "update_card",
                          [op |-> "update_card", via |-> "api", card_id |-> card_id,
                           data |-> data])
    \/ \E hdr \in UserKeys, card_id \in Slugs :
          require_api_key("p1", hdr, "delete_card",
                          [op |-> "delete_card", via |-> "api", card_id |-> card_id])
    \/ get_card("p1")
    \/ list_cards("p1")
    \/ update_card("p1")
    \/ \E gone \in SUBSET Both : delete_card("p1", gone)
    \/ \E who \in UserIds, card_id \in Slugs :
          cards_edit("p1", who, "POST", TRUE, card_id, EditForm)
    \/ \E who \in UserIds, card_id \in Slugs, gone \in SUBSET Both :
          cards_delete("p1", who, TRUE, card_id, gone)
    \/ Return("p1")

SpecCards == Init /\ [][NextCards]_vars

\* Worker p takes the step in which a card handler, reached past the API
\* key check or past the dashboard's CSRF and login checks, answers.
CardHandlerStep(p) ==
    /\ pc'[p] = "done"
    /\ \/ pc[p] \in {"get_card", "update_card", "delete_card"}
       \/ /\ pc[p] = "idle"
          /\ req'[p].op \in {"update_card", "delete_card"}
          /\ req'[p].via = "dashboard"
          /\ DashboardGate(req'[p].method, req'[p].csrf, req'[p].current_user) = NoResp

\* C8: get_card, update_card, delete_card, cards_edit and cards_delete called
\* with the id of another user's card answer 404 and leave every card and
\* every stored image as they are; list_cards returns the caller's cards and
\* no others.
OwnCardsOnlyStep ==
    \A p \in Procs :
        /\ (/\ CardHandlerStep(p)
            /\ req'[p].card_id \in DOMAIN cards
            /\ cards[req'[p].card_id].user_id # req'[p].current_user)
              => resp'[p].status = 404 /\ cards' = cards /\ storage' = storage
        /\ (pc[p] = "list_cards" /\ pc'[p] = "done")
              => /\ resp'[p].status = 200
                 /\ \A c \in resp'[p].cards : c.user_id = req[p].current_user
                 /\ {c.id : c \in resp'[p].cards} =
                       {c \in DOMAIN cards : cards[c].user_id = req[p].current_user}
OwnCardsOnly == [][OwnCardsOnlyStep]_vars

\* u2's dashboard asked to delete u1's card, which is still there with both
\* of its images.
OwnCardsOnlyWitness ==
    /\ pc["p1"] = "done"
    /\ req["p1"].op = "delete_card" /\ req["p1"].via = "dashboard"
    /\ req["p1"].current_user = "u2"
    /\ req["p1"].card_id \in DOMAIN cards
    /\ cards[req["p1"].card_id].user_id = "u1"
    /\ cards[req["p1"].card_id].image_original_key \in DOMAIN storage
    /\ cards[req["p1"].card_id].image_processed_key \in DOMAIN storage
    /\ resp["p1"].status = 404

\* ------------------------------------------------------------------ the API beside the dashboard
\* Inputs that a client can send to either interface.
PaddedTitle == Text("t4", 1, 200, 0, FALSE)
NotAUrl == Text("not a url", 0, 9, 0, FALSE)
Blank == Text("", 2, 0, 0, FALSE)
TextFile == Image("img2", TRUE, "txt", "image/png", 1000, TRUE)
MirrorForms ==
    {GoodForm,
     Form(GoodImage, EmptyText, EmptyText, UrlA, "summary"),
     Form(GoodImage, Text("t1", 0, 5, 0, FALSE), EmptyText, NotAUrl, "summary"),
     Form(GoodImage, Text("t1", 0, 5, 0, FALSE), Blank, UrlA, "summary"),
     Form(GoodImage, PaddedTitle, EmptyText, UrlA, "summary"),
     Form(TextFile, Text("t1", 0, 5, 0, FALSE), EmptyText, UrlA, "summary"),
     Form(GoodImage, Text("t1", 0, 5, 0, FALSE), EmptyText, UrlA, Absent)}
MirrorEdits ==
    {FullPatch,
     Patch(Text("t2", 0, 2, 0, FALSE), Blank, UrlB),
     Patch(Text("t2", 0, 2, 0, FALSE), EmptyText, NotAUrl),
     Patch(Blank, EmptyText, UrlB)}

CardsOf(user_id) == {c \in DOMAIN cards : cards[c].user_id = user_id}
\* The i-th card of the user, in the order of creation.
NthCard(user_id, i) ==
    CHOOSE c \in CardsOf(user_id) :
        Cardinality({d \in CardsOf(user_id) : d < c}) = i - 1
HasNth(i) ==
    i <= Cardinality(CardsOf("u1")) /\ i <= Cardinality(CardsOf("u2"))

\* u1 works through the API (worker p1) and u2 through the dashboard
\* (worker p2): every request u1 makes, u2 makes next with the same inputs,
\* and only then does either go on.
BothIdle == \A p \in Procs : pc[p] = "idle"
Echo(op) == pc["p1"] = "done" /\ pc["p2"] = "idle" /\ req["p1"].op = op
NextMirror ==
    \/ \E f \in MirrorForms :
          /\ BothIdle /\ next_slug < 2 * MaxServed
          /\ require_api_key("p1", generate_key(1), "create_card",
                             [op |-> "create_card", via |-> "api", form |-> f])
    \/ create_card("p1")
    \/ \E p \in Procs : create_upload(p, "stored")
    \/ \E p \in Procs : create_commit(p)
    \/ /\ Echo("create_card")
       /\ cards_create("p2", "u2", "POST", TRUE, req["p1"].form)
    \/ \E i \in 1..MaxServed, data \in MirrorEdits :
          /\ BothIdle /\ HasNth(i)
          /\ require_api_key("p1", generate_key(1), "update_card",
                             [op |-> "update_card", via |-> "api", nth |-> i,
                              card_id |-> NthCard("u1", i), data |-> data])
    \/ update_card("p1")
    \/ /\ Echo("update_card")
       /\ cards_edit("p2", "u2", "POST", TRUE, NthCard("u2", req["p1"].nth),
                     Form(NoImage, req["p1"].data.title, req["p1"].data.description,
                          req["p1"].data.destination_url, Absent))
    \/ \E i \in 1..MaxServed :
          /\ BothIdle /\ HasNth(i)
          /\ require_api_key("p1", generate_key(1), "delete_card",
                             [op |-> "delete_card", via |-> "api", nth |-> i,
                              card_id |-> NthCard("u1", i)])
    \/ delete_card("p1", Both)
    \/ /\ Echo("delete_card")
       /\ cards_delete("p2", "u2", TRUE, NthCard("u2", req["p1"].nth), Both)
    \/ pc["p2"] = "done" /\ Return("p1")
    \/ pc["p1"] = "idle" /\ Return("p2")

SpecMirror == Init /\ [][NextMirror]_vars

\* Whether the answer says that the request was carried out.
Accepted(r) ==
    \/ r.status \in {200, 201} /\ "template" \notin DOMAIN r
    \/ r.status = 302 /\ r.flash \in {"Card created successfully!",
                                      "Card updated successfully!",
                                      "Card deleted successfully!"}
\* A card without what names its owner and itself.
Fields(card) ==
    [title |-> card.title, description |-> card.description,
     destination_url |-> card.destination_url, card_type |-> card.card_type,
     view_count |-> card.view_count]
\* The stored objects of a card.
Objects(card) ==
    {storage[k] : k \in {card.image_original_key, card.image_processed_key}
                           \cap DOMAIN storage}

\* C10: the API mirrors the dashboard: after the same requests with the same
\* inputs, u1 (API) and u2 (dashboard) were answered alike (carried out or
\* rejected) and have cards with the same fields, the same stored objects
\* and the same monthly_card_count.
ApiMirrorsDashboard ==
    (pc["p1"] = "done" /\ pc["p2"] = "done") =>
        /\ Accepted(resp["p1"]) <=> Accepted(resp["p2"])
        /\ Cardinality(CardsOf("u1")) = Cardinality(CardsOf("u2"))
        /\ \A i \in 1..Cardinality(CardsOf("u1")) :
              /\ Fields(cards[NthCard("u1", i)]) = Fields(cards[NthCard("u2", i)])
              /\ Objects(cards[NthCard("u1", i)]) = Objects(cards[NthCard("u2", i)])
        /\ users["u1"].monthly_card_count = users["u2"].monthly_card_count

\* ------------------------------------------------------------------ accounts: the runs
\* u1 registered with a password and followed the verification link; u2 came
\* through google_callback, which stores no password hash and no token.
InitAuth ==
    /\ now = 0
    /\ users = ("u1" :> (NewUser(TRUE, "free", FALSE, 0)
                         @@ Account(EmailOf["u1"],
                                    generate_password_hash(PasswordOf["u1"]), NoToken)))
               @@ ("u2" :> (NewUser(TRUE, "free", TRUE, 0)
                            @@ Account(EmailOf["u2"], NoHash, NoToken)))
    /\ outbox = {Mail(EmailOf["u1"], "verification", Registered["u1"], 0)}
    /\ api_keys = <<>>
    /\ next_key = 1
    /\ cards = <<>>
    /\ storage = <<>>
    /\ next_slug = 1
    /\ pc = [p \in Procs |-> "idle"]
    /\ req = [p \in Procs |-> NoReq]
    /\ resp = [p \in Procs |-> NoResp]
    /\ created = {}
    /\ redirected = <<>>

UpperEmail == <<"A", "@", "X", ".", "y">>
NewEmail == <<"c", "@", "x", ".", "y">>
Malformed == <<"a", "x">>
Emails == {EmailOf["u1"], UpperEmail, EmailOf["u2"], NewEmail, Malformed, <<>>}
NewPassword == <<"n", "e", "w", "p", "a", "s", "s", "1">>
ShortPassword == <<"p", "w">>
Passwords == {PasswordOf["u1"], NewPassword, ShortPassword, <<>>}
\* The tokens a visitor can present: those of the mails, those with
\* "reset:" put in front, and one that no mail carried.
Links == {m.token : m \in {n \in outbox : n.kind # "welcome"}}
Guess == Token(0, MaxMails + 5)
Presentable == Links \cup {ResetOf(t) : t \in Links} \cup {Guess}
MailsLeft == Cardinality(outbox) < MaxMails
Visitors == {NoUser, "u1"}
Methods == {"GET", "POST"}

\* The account handlers on one worker, within one instant of the clock.
NextAuth ==
    \/ \E who \in Visitors, method \in Methods, csrf \in BOOLEAN,
          email \in Emails, password \in Passwords :
          login("p1", who, method, csrf, email, password)
    \/ \E who \in Visitors, method \in Methods, csrf \in BOOLEAN,
          email \in Emails, password \in Passwords :
          \E confirm \in {password, <<>>} :
             MailsLeft /\ register("p1", who, method, csrf, email, password, confirm)
    \/ \E token \in Presentable :
          verify_email("p1", token)
    \/ \E csrf \in BOOLEAN, email \in Emails :
          MailsLeft /\ resend_verification("p1", csrf, email)
    \/ \E who \in Visitors, method \in Methods, csrf \in BOOLEAN, email \in Emails :
          MailsLeft /\ forgot_password("p1", who, method, csrf, email)
    \/ \E who \in Visitors, method \in Methods, csrf \in BOOLEAN,
          token \in Presentable, password \in Passwords :
          \E confirm \in {password, <<>>} :
             reset_password("p1", who, method, csrf, token, password, confirm)
    \/ Return("p1")

SpecAuth == InitAuth /\ [][NextAuth]_vars

\* Asking for a reset link and following it, while the clock runs.
NextReset ==
    \/ Tick
    \/ \E who \in Visitors, method \in Methods, csrf \in BOOLEAN, email \in Emails :
          MailsLeft /\ forgot_password("p1", who, method, csrf, email)
    \/ \E who \in Visitors, method \in Methods, csrf \in BOOLEAN,
          token \in Presentable, password \in Passwords :
          \E confirm \in {password, <<>>} :
             reset_password("p1", who, method, csrf, token, password, confirm)
    \/ Return("p1")

SpecReset == InitAuth /\ [][NextReset]_vars

\* The handler op has just answered on the one worker.
Answered(op) ==
    /\ pc["p1"] = "idle" /\ pc'["p1"] = "done"
    /\ req'["p1"].op = op

\* The reset mails that carry the presented token and were written at an
\* earlier instant.  Instants are days apart or more, so such a link is
\* older than the hour its mail grants it.
OlderThanAnHour(token) ==
    {m \in outbox : m.kind = "password_reset" /\ m.token = token /\ m.at < now}
Rejected(r) ==
    \/ r = ToLogin("Invalid or expired reset link.")
    \/ r = ToDashboard
    \/ r = [status |-> 400, error |-> "CSRF"]
ResetExpiresStep ==
    (Answered("reset_password") /\ OlderThanAnHour(req'["p1"].token) # {})
        => /\ Rejected(resp'["p1"])
           /\ \A u \in DOMAIN users : users'[u].password_hash = users[u].password_hash
\* C11: reset_password with a token issued more than one hour earlier is
\* rejected and the password stays as it was.
ResetLinkExpires == [][ResetExpiresStep]_vars

\* A POST that passed the CSRF check, from a visitor who is not logged in,
\* with a well-formed address.
AsksAbout(op) ==
    /\ Answered(op)
    /\ req'["p1"].method = "POST"
    /\ resp'["p1"] # [status |-> 400, error |-> "CSRF"]
    /\ Email(req'["p1"].email)
SameAnswerStep ==
    /\ AsksAbout("resend_verification")
         => resp'["p1"] = ToLogin("If an account exists with that email, a verification link has been sent.")
    /\ (AsksAbout("forgot_password") /\ req'["p1"].current_user = NoUser)
         => resp'["p1"] = ToLogin("If an account exists with that email, a password reset link has been sent.")
\* C12: resend_verification and forgot_password answer a well-formed address
\* with the same flash and redirect, whether or not an account has the
\* address and whether or not it is verified.
SameAnswerForAnyAddress == [][SameAnswerStep]_vars
\* forgot_password has answered a well-formed address that no account has.
SameAnswerWitness ==
    /\ pc["p1"] = "done"
    /\ req["p1"].op = "forgot_password"
    /\ Email(req["p1"].email)
    /\ ByEmail(lower(req["p1"].email)) = {}
    /\ resp["p1"] = ToLogin("If an account exists with that email, a password reset link has been sent.")

\* login_user was called: the response carries a session.
LoggedIn(r) == "session" \in DOMAIN r
LoginStep ==
    Answered("login") =>
        /\ users' = users
        /\ LoggedIn(resp'["p1"]) =>
              /\ req'["p1"].current_user = NoUser
              /\ resp'["p1"].session \in ByEmail(lower(req'["p1"].email))
              /\ LET user == users[resp'["p1"].session]
                 IN  /\ user.password_hash = generate_password_hash(req'["p1"].password)
                     /\ user.email_verified
        /\ \A u \in ByEmail(lower(req'["p1"].email)) :
              users[u].password_hash = NoHash => ~LoggedIn(resp'["p1"])
\* C13: a password login creates a session only for the user with the
\* lower-cased address, whose hash the password matches and whose address is
\* verified; a user without a hash fails every password; login changes no
\* user.
LoginOnlyWithPassword == [][LoginStep]_vars
\* A login typed in upper case got the session of u1, with the password that
\* a reset put in place.
LoginWitness ==
    /\ pc["p1"] = "done"
    /\ req["p1"].op = "login"
    /\ req["p1"].email = UpperEmail
    /\ req["p1"].password = NewPassword
    /\ LoggedIn(resp["p1"])
    /\ resp["p1"].session = "u1"

\* The mails with a link that went to an address, and the token the
\* latest of them put into the users table.
LinksTo(email) == {m \in outbox : m.to = email /\ m.kind # "welcome"}
Latest(email) ==
    CHOOSE m \in LinksTo(email) : \A n \in LinksTo(email) : n.token.tok <= m.token.tok
Stored(m) == IF m.kind = "password_reset" THEN ResetOf(m.token) ELSE m.token
\* A stored token is the one of the latest mail to its user, and of no
\* other user.
OnlyLatest ==
    \A u \in DOMAIN users :
        users[u].email_verification_token # NoToken =>
            /\ LinksTo(users[u].email) # {}
            /\ users[u].email_verification_token = Stored(Latest(users[u].email))
            /\ ByToken(users[u].email_verification_token) = {u}
HoldersIn(table, token) ==
    {u \in DOMAIN table : table[u].email_verification_token = token}
Succeeded(r) ==
    \/ r = ToLogin("Email verified successfully! You can now log in.")
    \/ r = ToLogin("Password reset successfully! You can now log in.")
TokenStep ==
    /\ OnlyLatest'
    /\ (Answered("verify_email") /\ Succeeded(resp'["p1"])) =>
          /\ HoldersIn(users', req'["p1"].token) = {}
          /\ \A u \in ByToken(req'["p1"].token) :
                users'[u].email_verification_token = NoToken
    /\ (Answered("reset_password") /\ Succeeded(resp'["p1"])) =>
          /\ HoldersIn(users', ResetOf(req'["p1"].token)) = {}
          /\ \A u \in ByToken(ResetOf(req'["p1"].token)) :
                users'[u].email_verification_token = NoToken
    /\ \A u \in DOMAIN users :
          (Answered("verify_email") /\ ~users[u].email_verified /\ users'[u].email_verified)
              => req'["p1"].token = users[u].email_verification_token
\* C19: a successful verify_email or reset_password clears the token it
\* used, a newly issued token replaces the one before it, and verify_email
\* verifies a user only for the token the user holds at that moment.
TokensSingleUse == [][TokenStep]_vars
\* The new account followed the link of the second verification mail.
TokensWitness ==
    /\ pc["p1"] = "done"
    /\ req["p1"].op = "verify_email"
    /\ resp["p1"] = ToLogin("Email verified successfully! You can now log in.")
    /\ Cardinality(LinksTo(NewEmail)) = 2
    /\ req["p1"].token = Latest(NewEmail).token
    /\ ByToken(req["p1"].token) = {}

\* ------------------------------------------------------------------ what an update leaves alone
\* Worker p takes the step in which update_card or cards_edit answers.
UpdateStep(p) ==
    /\ pc'[p] = "done"
    /\ req'[p].op = "update_card"
    /\ pc[p] \in {"update_card", "idle"}
Editable == {"title", "description", "destination_url"}
UpdateFrameStep ==
    \A p \in Procs :
        UpdateStep(p) =>
            /\ DOMAIN cards' = DOMAIN cards
            /\ storage' = storage /\ users' = users /\ api_keys' = api_keys
            /\ \A c \in DOMAIN cards :
                  /\ \A f \in (DOMAIN cards[c]) \ Editable : cards'[c][f] = cards[c][f]
                  /\ c # req'[p].card_id => cards'[c] = cards[c]
                  /\ req'[p].via = "api" =>
                        \A f \in Editable :
                            req'[p].data[f] = AbsentText => cards'[c][f] = cards[c][f]
\* C14: update_card and cards_edit change the title, the description and
\* the destination_url of the one card and nothing else: its slug, owner,
\* card_type, image keys, view_count and stored images stay; PATCH changes
\* only the fields its body holds.
UpdateChangesTextOnly == [][UpdateFrameStep]_vars
\* A PATCH with a title alone answered 200 on a card that had got its
\* description and address from an earlier PATCH.
UpdateWitness ==
    /\ pc["p1"] = "done"
    /\ req["p1"].op = "update_card" /\ req["p1"].via = "api"
    /\ req["p1"].data = TitlePatch
    /\ resp["p1"].status = 200
    /\ cards[req["p1"].card_id].title = strip(TitlePatch.title)
    /\ cards[req["p1"].card_id].description = strip(FullPatch.description)
    /\ cards[req["p1"].card_id].destination_url = strip(FullPatch.destination_url)
    /\ cards[req["p1"].card_id].image_processed_key \in DOMAIN storage

\* ------------------------------------------------------------------ revoking keys
\* u1 and u2 create and revoke keys through the API on one worker, while
\* the clock runs.
NextRevoke ==
    \/ Tick
    \/ \E hdr \in Headers :
          /\ next_key <= MaxKeys
          /\ require_api_key("p1", hdr, "create_key",
                             [op |-> "create_key", via |-> "api", name |-> GoodName])
    \/ create_key("p1")
    \/ \E hdr \in Headers, key_id \in 1..(MaxKeys + 1) :
          require_api_key("p1", hdr, "revoke_key",
                          [op |-> "revoke_key", via |-> "api", key_id |-> key_id])
    \/ revoke_key("p1")
    \/ Return("p1")

SpecRevoke == Init /\ [][NextRevoke]_vars

\* Worker p takes the step in which revoke_key answers.
RevokeStep(p) == pc[p] = "revoke_key" /\ pc'[p] = "done"
RevokeErrorStep ==
    \A p \in Procs :
        RevokeStep(p) =>
            LET r == req[p]
            IN  /\ r.key_id \notin KeysOf(r.current_user)
                      => resp'[p].status = 404 /\ api_keys' = api_keys
                /\ (r.key_id \in KeysOf(r.current_user)
                    /\ api_keys[r.key_id].revoked_at # NoTime)
                      => /\ resp'[p] = [status |-> 400, error |-> "Key already revoked"]
                         /\ api_keys' = api_keys
                /\ (r.key_id = r.api_key /\ api_keys[r.key_id].revoked_at = NoTime)
                      => /\ resp'[p] = [status |-> 400, error |-> "Cannot revoke current key"]
                         /\ api_keys' = api_keys
                         /\ is_active(api_keys'[r.key_id])
\* The key check that lets a DELETE through stamps last_used_at of the key
\* presented and changes no other column of any key.
RevokeCheckStep ==
    \A p \in Procs :
        (pc[p] = "idle" /\ req'[p].op = "revoke_key" /\ req'[p].via = "api") =>
            /\ DOMAIN api_keys' = DOMAIN api_keys
            /\ \A k \in DOMAIN api_keys :
                  api_keys'[k] = [api_keys[k] EXCEPT !.last_used_at = api_keys'[k].last_used_at]
Tiers == UserTier \cup {"gold", Absent}
UserRows == UserIds \cup {"u9"}
\* u1 creates cards on the dashboard, and anyone, logged in or not, sends
\* the admin panel's three POSTs; u2 is the administrator at first.
NextAdmin ==
    \/ next_slug <= MaxServed /\ cards_create("p1", "u1", "POST", TRUE, GoodForm)
    \/ create_upload("p1", "stored")
    \/ create_commit("p1")
    \/ \E who \in Sessions, csrf \in BOOLEAN, user_id \in UserRows, new_tier \in Tiers :
          update_tier("p1", who, csrf, user_id, new_tier)
    \/ \E who \in Sessions, csrf \in BOOLEAN, user_id \in UserRows :
          toggle_admin("p1", who, csrf, user_id)
    \/ \E who \in Sessions, csrf \in BOOLEAN, card_id \in Slugs, gone \in SUBSET Both :
          admin_delete_card("p1", who, csrf, card_id, gone)
    \/ Return("p1")

SpecAdmin == Init /\ [][NextAdmin]_vars

\* Worker p takes the step in which one of the three admin views answers.
AdminStep(p) ==
    /\ pc[p] = "idle" /\ pc'[p] = "done"
    /\ req'[p].op \in {"update_tier", "toggle_admin", "admin_delete_card"}
AdminOnlyStep ==
    /\ \A u \in DOMAIN users' : users'[u].tier \in UserTier
    /\ \A p \in Procs :
          AdminStep(p) =>
             LET who == req'[p].current_user
             IN  /\ (who = NoUser \/ ~users[who].is_admin)
                       => users' = users /\ cards' = cards /\ storage' = storage
                 /\ who # NoUser => users'[who] = users[who]
                 /\ (req'[p].op = "update_tier" /\ req'[p].tier \notin UserTier)
                       => users' = users
\* C16: update_tier, toggle_admin and the admin delete_card change something
\* only for a requester who is logged in with is_admin true; no requester
\* changes their own tier or admin status; update_tier with a value outside
\* free, core, premium changes nothing, and every tier is one of the three.
AdminOnly == [][AdminOnlyStep]_vars
\* u2 made u1 an administrator, u1 moved u2 to core and took the right from
\* u2; now u2 asks for u1 to be premium and is turned away.
AdminWitness ==
    /\ pc["p1"] = "done"
    /\ req["p1"].op = "update_tier"
    /\ req["p1"].current_user = "u2"
    /\ req["p1"].user_id = "u1"
    /\ req["p1"].tier = "premium"
    /\ ~users["u2"].is_admin /\ users["u1"].is_admin
    /\ users["u2"].tier = "core" /\ users["u1"].tier = "free"
    /\ resp["p1"] = [status |-> 302, location |-> "dashboard.index",
                     flash |-> "Admin access required."]

\* ------------------------------------------------------------------ image sizes
\* The sides of the images handed to process: every small one, and some
\* around the two target sizes.
MaxSide == 12
Sides == (1..MaxSide) \cup {143, 144, 145, 157, 300, 519, 628, 1200, 1201}
NextImage ==
    \/ \E width \in Sides, height \in Sides, card_type \in CardTypes :
          open_image("p1", width, height, card_type)
    \/ process_image("p1")
    \/ Return("p1")

SpecImage == Init /\ [][NextImage]_vars

\* C17: process returns an image of the target size of the card type, and
\* the box it crops lies inside the resized image: new_w >= target_w,
\* new_h >= target_h, 0 <= left, left + target_w <= new_w, and the same for
\* top.
CropInsideResized ==
    (pc["p1"] = "done" /\ req["p1"].op = "process") =>
        LET r == resp["p1"]
            target_size == DIMENSIONS[req["p1"].card_type]
        IN  /\ r.size = target_size
            /\ r.new_w >= target_size[1] /\ r.new_h >= target_size[2]
            /\ 0 <= r.box[1] /\ r.box[3] <= r.new_w
            /\ 0 <= r.box[2] /\ r.box[4] <= r.new_h
            /\ r.box[1] = (r.new_w - target_size[1]) \div 2
            /\ r.box[2] = (r.new_h - target_size[2]) \div 2

\* ------------------------------------------------------------------ what a creation adds
\* Worker p takes the step in which a creation request gets its answer.
CreateAnswerStep(p) ==
    /\ pc[p] # "done" /\ pc'[p] = "done"
    /\ req'[p].op = "create_card"
CreatedAnswer(r) ==
    \/ r.status = 201
    \/ /\ r.status = 302
       /\ "flash" \in DOMAIN r
       /\ r.flash = "Card created successfully!"
\* The stored count of user u, taken as 0 when the month has changed.
CountThisMonth(u) ==
    IF OtherMonth(users[u], now) THEN 0 ELSE users[u].monthly_card_count
CreationStep ==
    \A p \in Procs :
        CreateAnswerStep(p) =>
            IF CreatedAnswer(resp'[p])
            THEN /\ \E slug \in (DOMAIN cards') \ (DOMAIN cards) :
                       /\ DOMAIN cards' = (DOMAIN cards) \cup {slug}
                       /\ cards'[slug].user_id = req'[p].current_user
                 /\ \A slug \in DOMAIN cards : cards'[slug] = cards[slug]
                 /\ users'[req'[p].current_user].monthly_card_count =
                        CountThisMonth(req'[p].current_user) + 1
            ELSE /\ cards' = cards
                 /\ \A u \in DOMAIN users :
                       users'[u].monthly_card_count <= users[u].monthly_card_count
\* C18: a creation request that fails adds no card and does not increase
\* monthly_card_count; one that succeeds adds exactly one card, owned by the
\* requester, and increases the count by exactly 1.
CreationAddsOneOrNothing == [][CreationStep]_vars

====
